---- MODULE Spec2Model ----
(***************************************************************************)
(* Model of the simplification and semantic-resolution pipeline of         *)
(* Figma-Context-MCP: the Value Store of the extractors, the variable      *)
(* resolver with its mapping caches, and the variant-name parser.          *)
(*                                                                         *)
(* A JavaScript string is a sequence of tokens.  Single characters are     *)
(* tokens; the words "VariableID", "Variable[", "true" and "false" are     *)
(* tokens of their own, so the literal 'VariableID:' is the two tokens     *)
(* <<"VariableID", ":">>.                                                  *)
(***************************************************************************)
EXTENDS Integers, Sequences, FiniteSets, TLC

----------------------------------------------------------------------------
(* JavaScript values *)

Null == [t |-> "null"]
Str(s) == [t |-> "str", s |-> s]
Bool(b) == [t |-> "bool", b |-> b]
\* a Promise object; `of` is the identifier whose lookup it will settle with
Promise(id) == [t |-> "promise", of |-> id]

\* undefined: what reading an absent property gives
Undefined == [t |-> "undefined"]
Num(n) == [t |-> "num", n |-> n]

\* JavaScript truthiness of a value: `if (v)`
Truthy(v) ==
  CASE v.t = "null" -> FALSE
    [] v.t = "undefined" -> FALSE
    [] v.t = "str" -> v.s # <<>>
    [] v.t = "bool" -> v.b
    [] v.t = "num" -> v.n # 0
    [] OTHER -> TRUE

----------------------------------------------------------------------------
(* String.prototype helpers *)

\* s.startsWith(p)
StartsWith(s, p) == Len(s) >= Len(p) /\ SubSeq(s, 1, Len(p)) = p

\* s.indexOf(p), 1-based, 0 when p does not occur
IndexOf(s, p) ==
  LET hits == {i \in 1..(Len(s) - Len(p) + 1) : SubSeq(s, i, i + Len(p) - 1) = p}
  IN IF hits = {} THEN 0 ELSE CHOOSE i \in hits : \A j \in hits : i <= j

\* s.replace(p, r) with a string pattern: the first occurrence only
Replace(s, p, r) ==
  LET i == IndexOf(s, p)
  IN IF i = 0 THEN s
     ELSE SubSeq(s, 1, i - 1) \o r \o SubSeq(s, i + Len(p), Len(s))

\* s.split(sep) for a one-token separator; "".split(sep) is [""]
RECURSIVE Split(_, _)
Split(s, sep) ==
  LET i == IndexOf(s, <<sep>>)
  IN IF i = 0 THEN <<s>>
     ELSE <<SubSeq(s, 1, i - 1)>> \o Split(SubSeq(s, i + 1, Len(s)), sep)

\* s.trim()
RECURSIVE Trim(_)
Trim(s) ==
  IF s = <<>> THEN s
  ELSE IF Head(s) = " " THEN Trim(Tail(s))
  ELSE IF s[Len(s)] = " " THEN Trim(SubSeq(s, 1, Len(s) - 1))
  ELSE s

\* arr.map(f)
Map(f(_), arr) == [i \in 1..Len(arr) |-> f(arr[i])]

----------------------------------------------------------------------------
(* utils/variable-mappings.ts: identifier lookup and fallback formatting *)

VariableIDPrefix == <<"VariableID", ":">>

\* allMappings.find(m => m.id === fullId || m.id === cleanId), then .name
FindMapping(mappings, fullId, cleanId) ==
  LET hits == {i \in 1..Len(mappings) :
                 mappings[i].id = fullId \/ mappings[i].id = cleanId}
  IN IF hits = {} THEN Null
     ELSE Str(mappings[CHOOSE i \in hits : \A j \in hits : i <= j].name)

\* The value resolveVariableFromMapping settles with, given the inline
\* customMappings (<<>> when not passed) and what getVariableMappings returned.
resolveVariableFromMapping(variableId, customMappings, allMappings) ==
  LET cleanId == Replace(variableId, VariableIDPrefix, <<>>)
      fullId == IF StartsWith(variableId, VariableIDPrefix) THEN variableId
                ELSE VariableIDPrefix \o variableId
      custom == FindMapping(customMappings, fullId, cleanId)
  IN IF custom # Null THEN custom
     ELSE FindMapping(allMappings, fullId, cleanId)

\* The design-token resolver: matches the namespaced form only.
resolveVariableFromMappingTokens(variableId, allMappings) ==
  LET fullId == IF StartsWith(variableId, VariableIDPrefix) THEN variableId
                ELSE VariableIDPrefix \o variableId
  IN FindMapping(allMappings, fullId, fullId)

\* mutation: the unresolved case passes resolvedName through
formatVariableReference_passthrough(variableId, resolvedName) == resolvedName

formatVariableReference(variableId, resolvedName) ==
  IF Truthy(resolvedName) THEN resolvedName
  ELSE LET cleanId == Replace(variableId, VariableIDPrefix, <<>>)
           parts == Split(cleanId, ":")
       IN IF Len(parts) = 2
          THEN Str(<<"Variable[">> \o parts[1] \o <<":">> \o parts[2] \o <<"]">>)
          ELSE Str(<<"Variable[">> \o cleanId \o <<"]">>)

----------------------------------------------------------------------------
(* utils/property-parser.ts: variant names *)

\* mutation: no boolean coercion of "true"/"false"
ParsePart_nocoerce(properties, part) ==
  LET kv == Map(Trim, Split(part, "="))
  IN IF kv[1] # <<>> /\ Len(kv) >= 2 /\ kv[2] # <<>>
     THEN (kv[1] :> Str(kv[2])) @@ properties
     ELSE properties

\* the body of parts.forEach in parseVariantName
ParsePart(properties, part) ==
  LET kv == Map(Trim, Split(part, "="))
      key == kv[1]
  IN IF key # <<>> /\ Len(kv) >= 2 /\ kv[2] # <<>>
     THEN IF kv[2] = <<"true">> \/ kv[2] = <<"false">>
          THEN (key :> Bool(kv[2] = <<"true">>)) @@ properties
          ELSE (key :> Str(kv[2])) @@ properties
     ELSE properties

RECURSIVE ParseParts(_, _)
ParseParts(properties, parts) ==
  IF parts = <<>> THEN properties
  ELSE ParseParts(ParsePart(properties, Head(parts)), Tail(parts))

\* the empty object {}
EmptyObject == [k \in {} |-> Null]

parseVariantName(variantName) ==
  ParseParts(EmptyObject, Map(Trim, Split(variantName, ",")))

----------------------------------------------------------------------------
(* Bounded inputs of the pure functions *)

MaxNameLen == 4
MaxIdLen == 3
MaxTableLen == 2

\* all strings over alphabet of length at most n
StringsUpTo(alphabet, n) == UNION {[1..k -> alphabet] : k \in 0..n}

NameAlphabet == {",", "=", " ", "A", "1", "true", "false"}

ExampleLayoutTitle ==
  <<"Layout", "=", "Default", ",", " ", "Title", "=", "true">>
ExampleAB == <<"A", "=", "1", ",", "B", "=", "2">>
ExampleNames ==
  { ExampleLayoutTitle, ExampleAB,
    <<"A", "=", "1", ",", "A", "=", "true">>,
    <<" ", "A", " ", "=", " ", "false", " ", ",", "=", "1", ",", "B", "=">>,
    <<"A", "=", "1", "=", "B", ",", "B", "=", "true", "1">> }

VariantNames == StringsUpTo(NameAlphabet, MaxNameLen) \cup ExampleNames

\* identifier bodies such as 5:7, and their namespaced form VariableID:5:7
IdAlphabet == {"5", "7", ":"}
BareIds == StringsUpTo(IdAlphabet, MaxIdLen) \ {<<>>}
VariableIds == BareIds \cup {VariableIDPrefix \o b : b \in BareIds}
Example1234 == VariableIDPrefix \o <<"12", ":", "34">>

ResolvedNames == {Null, Str(<<>>), Str(<<"Surface/Inverse">>)}

\* mapping tables: entries stored in the bare or in the namespaced form
TableIds ==
  { <<"5", ":", "7">>, <<"5">>,
    VariableIDPrefix \o <<"5", ":", "7">>, VariableIDPrefix \o <<"5">> }
MappingEntries == [id : TableIds, name : {<<"Surface/Inverse">>, <<"Content/Inverse">>}]
MappingTables == StringsUpTo(MappingEntries, MaxTableLen)

----------------------------------------------------------------------------
(* Calls of the pure functions *)

VARIABLES fn, arg, ret

pureVars == <<fn, arg, ret>>

\* no call of a pure function under way
IdlePure ==
  /\ fn = "none"
  /\ arg = Null
  /\ ret = Null

CallParseVariantName ==
  \E variantName \in VariantNames :
    /\ fn = "none"
    /\ fn' = "parseVariantName"
    /\ arg' = variantName
    /\ ret' = parseVariantName(variantName)

CallFormatVariableReference ==
  \E variableId \in VariableIds \cup {Example1234}, resolvedName \in ResolvedNames :
    /\ fn = "none"
    /\ fn' = "formatVariableReference"
    /\ arg' = [variableId |-> variableId, resolvedName |-> resolvedName]
    /\ ret' = formatVariableReference(variableId, resolvedName)

\* one identifier looked up in its bare and in its namespaced form, by the
\* resolver of variable-mappings.ts and by the design-token resolver
CallResolveVariableFromMapping ==
  \E x \in BareIds, allMappings \in MappingTables :
    /\ fn = "none"
    /\ fn' = "resolveVariableFromMapping"
    /\ arg' = [id |-> x, allMappings |-> allMappings]
    /\ ret' = [ bare |-> resolveVariableFromMapping(x, <<>>, allMappings),
                full |-> resolveVariableFromMapping(VariableIDPrefix \o x, <<>>, allMappings),
                tokensBare |-> resolveVariableFromMappingTokens(x, allMappings),
                tokensFull |-> resolveVariableFromMappingTokens(VariableIDPrefix \o x, allMappings) ]

\* the caller takes the result; the next call starts afresh
Return ==
  /\ fn # "none"
  /\ fn' = "none"
  /\ arg' = Null
  /\ ret' = Null

----------------------------------------------------------------------------
(* extractors: the Value Store (globalVars.styles) and the visuals extractor *)

MaxNodes == 2
MaxFills == 1

\* JSON.stringify of a store payload.  The result stands for the JSON text:
\* a Promise has no enumerable property of its own and serialises as {}.
JSONValue(v) == IF v.t = "promise" THEN [t |-> "object"] ELSE v
JSONItem(item) ==
  IF item.t = "annotated"
  THEN [t |-> "annotated", value |-> item.value, variable |-> JSONValue(item.variable)]
  ELSE item
JSONstringify(value) ==
  CASE value.t = "array" -> [t |-> "array", items |-> Map(JSONItem, value.items)]
    [] value.t = "strokes" -> [t |-> "strokes", colors |-> Map(JSONItem, value.colors)]
    [] OTHER -> value

\* generateVarId(prefix): the key `prefix_N`, N counting up within one store
generateVarId(prefix, seq) == <<prefix, "_", seq>>

\* mutation: the scan for an existing entry never matches
findOrCreateVar_nodedup(styles, seq, value, prefix) ==
  [ varId |-> generateVarId(prefix, seq),
    styles |-> Append(styles, [key |-> generateVarId(prefix, seq), value |-> value]),
    seq |-> seq + 1 ]

\* findOrCreateVar on a store whose entries are kept in insertion order;
\* yields the key, the store and the key counter after the call
findOrCreateVar(styles, seq, value, prefix) ==
  LET hits == {i \in 1..Len(styles) :
                 JSONstringify(styles[i].value) = JSONstringify(value)}
  IN IF hits # {}
     THEN [ varId |-> styles[CHOOSE i \in hits : \A j \in hits : i <= j].key,
            styles |-> styles, seq |-> seq ]
     ELSE LET varId == generateVarId(prefix, seq)
              at == {i \in 1..Len(styles) : styles[i].key = varId}
          IN [ varId |-> varId,
               styles |-> IF at = {}
                          THEN Append(styles, [key |-> varId, value |-> value])
                          ELSE [i \in 1..Len(styles) |->
                                  IF i \in at THEN [key |-> varId, value |-> value]
                                  ELSE styles[i]],
               seq |-> seq + 1 ]

\* mutation: the mapping is asked before the API-supplied table
resolveVariableName_mappingfirst(variableId, variables, variableCollections) ==
  IF variableId = <<>> THEN [name |-> Null, mapping |-> FALSE, fallback |-> FALSE]
  ELSE [name |-> Promise(variableId), mapping |-> TRUE, fallback |-> FALSE]

\* resolveVariableName: the returned name, whether resolveVariableFromMapping
\* was called and whether formatVariableReference was.  The tables map
\* identifiers to records; an absent table is the empty function.
resolveVariableName(variableId, variables, variableCollections) ==
  IF variableId = <<>> THEN [name |-> Null, mapping |-> FALSE, fallback |-> FALSE]
  ELSE IF variableId \in DOMAIN variables
  THEN LET variable == variables[variableId]
           collectionId == variable.variableCollectionId
       IN [ name |-> IF /\ collectionId # <<>>
                        /\ collectionId \in DOMAIN variableCollections
                        /\ variableCollections[collectionId].name # <<>>
                     THEN Str(variableCollections[collectionId].name \o <<"/">> \o variable.name)
                     ELSE Str(variable.name),
            mapping |-> FALSE, fallback |-> FALSE ]
  ELSE LET mappedName == Promise(variableId)   \* the async function's return value
       IN IF Truthy(mappedName)
          THEN [name |-> mappedName, mapping |-> TRUE, fallback |-> FALSE]
          ELSE [ name |-> formatVariableReference(variableId, Null),
                 mapping |-> TRUE, fallback |-> TRUE ]

\* parsePaint: the simplified paint (opaque here: the colour of a SOLID paint,
\* the paint type otherwise)
parsePaint(fill, hasChildren) ==
  IF fill.type = "SOLID" THEN Str(fill.color) ELSE [t |-> "paint", type |-> fill.type]

\* a VariableAlias of the binding tables; Null when the slot is empty
Alias(id) == [t |-> "alias", id |-> id]

\* mutation: the fill's own binding is looked at first
FillBinding_fillfirst(node, index) ==
  IF node.fills[index].type = "SOLID" /\ Truthy(node.fills[index].boundColor)
  THEN node.fills[index].boundColor
  ELSE IF index <= Len(node.boundFills) /\ Truthy(node.boundFills[index])
  THEN node.boundFills[index]
  ELSE Null

\* the binding chosen for the fill at index: node level first, then fill level
FillBinding(node, index) ==
  IF index <= Len(node.boundFills) /\ Truthy(node.boundFills[index])
  THEN node.boundFills[index]
  ELSE IF node.fills[index].type = "SOLID" /\ Truthy(node.fills[index].boundColor)
  THEN node.fills[index].boundColor
  ELSE Null

\* the resolveVariableName call made for the fill at index (none: variableId <<>>)
FillResolution(node, index, variables, variableCollections) ==
  LET variableBinding == FillBinding(node, index)
  IN IF Truthy(variableBinding) /\ variableBinding.id # <<>>
     THEN resolveVariableName(variableBinding.id, variables, variableCollections)
     ELSE [name |-> Null, mapping |-> FALSE, fallback |-> FALSE]

\* node.fills.map((fill, index) => ...)
FillItem(node, index, variables, variableCollections) ==
  LET parsedFill == parsePaint(node.fills[index], FALSE)
      variableName == FillResolution(node, index, variables, variableCollections).name
  IN IF Truthy(variableName)
     THEN [t |-> "annotated", value |-> parsedFill, variable |-> variableName]
     ELSE parsedFill

\* the binding of the stroke colour at index, when boundVariables.strokes exists
StrokeResolution(node, index, variables, variableCollections) ==
  IF index <= Len(node.boundStrokes) /\ Truthy(node.boundStrokes[index])
  THEN resolveVariableName(node.boundStrokes[index].id, variables, variableCollections)
  ELSE [name |-> Null, mapping |-> FALSE, fallback |-> FALSE]

StrokeItem(node, index, variables, variableCollections) ==
  LET color == Str(node.strokes[index])
      variableName == StrokeResolution(node, index, variables, variableCollections).name
  IN IF Truthy(variableName)
     THEN [t |-> "annotated", value |-> color, variable |-> variableName]
     ELSE color

VARIABLES
  variables,            \* context.variables
  variableCollections,  \* context.variableCollections
  styles,               \* context.globalVars.styles, in insertion order
  varSeq,               \* the key counter of the store
  visited,              \* the number of nodes extracted in this traversal
  interned,             \* every findOrCreateVar call: its node, payload and key
  resolveCalls,         \* the resolveVariableName calls of the last extraction
  result                \* the simplified node of the last extraction

storeVars ==
  <<variables, variableCollections, styles, varSeq, visited, interned, resolveCalls, result>>

VarA == VariableIDPrefix \o <<"5", ":", "7">>
VarB == VariableIDPrefix \o <<"12", ":", "34">>
NoTable == [k \in {} |-> Null]

\* the tables of one fetch: none; the variable alone; the variable in a
\* collection that is present; the variable in a collection that is not
Contexts ==
  { [variables |-> NoTable, variableCollections |-> NoTable],
    [variables |-> (VarA :> [name |-> <<"Inverse">>, variableCollectionId |-> <<>>]),
     variableCollections |-> (<<"c1">> :> [name |-> <<"Surface">>])],
    [variables |-> (VarA :> [name |-> <<"Inverse">>, variableCollectionId |-> <<"c1">>]),
     variableCollections |-> (<<"c1">> :> [name |-> <<"Surface">>])],
    [variables |-> (VarA :> [name |-> <<"Inverse">>, variableCollectionId |-> <<"c1">>]),
     variableCollections |-> NoTable] }

Paints ==
  [type : {"SOLID"}, color : {<<"#FCFFFA">>, <<"#000000">>},
   boundColor : {Null, Alias(VarA)}]
    \cup {[type |-> "IMAGE", color |-> <<>>, boundColor |-> Null]}
NodeFillBindings == {Null, Alias(VarB), Alias(<<>>)}

PlainNode ==
  [ fills |-> <<>>, boundFills |-> <<>>, strokes |-> <<>>, hasBoundStrokes |-> FALSE,
    boundStrokes |-> <<>>, effects |-> <<>>, opacity |-> 100, cornerRadius |-> -1 ]

\* raw nodes: every fill list with its binding table, and nodes with strokes,
\* effects, opacity (in percent) and corner radius
RawNodes ==
  UNION { { [PlainNode EXCEPT !.fills = f, !.boundFills = b] :
              f \in [1..k -> Paints], b \in [1..k -> NodeFillBindings] } :
          k \in 1..MaxFills }
  \cup { [PlainNode EXCEPT !.strokes = <<<<"#000000">>>>, !.hasBoundStrokes = h,
                           !.boundStrokes = b, !.effects = e] :
           h \in BOOLEAN, b \in {<<>>, <<Alias(VarA)>>, <<Alias(VarB)>>, <<Alias(<<>>)>>},
           e \in {<<>>, <<"shadow">>} }
  \cup { [PlainNode EXCEPT !.effects = <<"shadow">>, !.opacity = o, !.cornerRadius = r] :
           o \in {100, 50}, r \in {-1, 4} }

\* the start of a traversal with the tables of context c
StartStore(c) ==
  /\ variables = c.variables
  /\ variableCollections = c.variableCollections
  /\ styles = <<>>
  /\ varSeq = 1
  /\ visited = 0
  /\ interned = <<>>
  /\ resolveCalls = <<>>
  /\ result = Null

\* no traversal under way
IdleStore == StartStore([variables |-> NoTable, variableCollections |-> NoTable])

\* visualsExtractor on one more node of the traversal
visualsExtractor(node) ==
  LET n == visited + 1
      fills == [t |-> "array",
                items |-> [i \in 1..Len(node.fills) |->
                             FillItem(node, i, variables, variableCollections)]]
      hasFills == Len(node.fills) > 0
      afterFills == IF hasFills THEN findOrCreateVar(styles, varSeq, fills, "fill")
                    ELSE [varId |-> <<>>, styles |-> styles, seq |-> varSeq]
      strokes == [t |-> "strokes",
                  colors |-> [i \in 1..Len(node.strokes) |->
                                IF node.hasBoundStrokes
                                THEN StrokeItem(node, i, variables, variableCollections)
                                ELSE Str(node.strokes[i])]]
      hasStrokes == Len(node.strokes) > 0
      afterStrokes == IF hasStrokes
                      THEN findOrCreateVar(afterFills.styles, afterFills.seq, strokes, "stroke")
                      ELSE [varId |-> <<>>, styles |-> afterFills.styles, seq |-> afterFills.seq]
      effects == [t |-> "effects", boxShadow |-> node.effects]
      hasEffects == node.effects # <<>>
      afterEffects == IF hasEffects
                      THEN findOrCreateVar(afterStrokes.styles, afterStrokes.seq, effects, "effect")
                      ELSE [varId |-> <<>>, styles |-> afterStrokes.styles, seq |-> afterStrokes.seq]
      fillCalls == [i \in 1..Len(node.fills) |->
                      [kind |-> "fill", index |-> i, binding |-> FillBinding(node, i),
                       call |-> FillResolution(node, i, variables, variableCollections)]]
      strokeCalls == IF node.hasBoundStrokes
                     THEN [i \in 1..Len(node.strokes) |->
                             [kind |-> "stroke", index |-> i,
                              binding |-> IF i <= Len(node.boundStrokes)
                                          THEN node.boundStrokes[i] ELSE Null,
                              call |-> StrokeResolution(node, i, variables, variableCollections)]]
                     ELSE <<>>
  IN /\ styles' = afterEffects.styles
     /\ varSeq' = afterEffects.seq
     /\ interned' = interned
          \o (IF hasFills THEN <<[node |-> n, prefix |-> "fill", value |-> fills,
                                  key |-> afterFills.varId]>> ELSE <<>>)
          \o (IF hasStrokes THEN <<[node |-> n, prefix |-> "stroke", value |-> strokes,
                                    key |-> afterStrokes.varId]>> ELSE <<>>)
          \o (IF hasEffects THEN <<[node |-> n, prefix |-> "effect", value |-> effects,
                                    key |-> afterEffects.varId]>> ELSE <<>>)
     /\ resolveCalls' = fillCalls \o strokeCalls
     /\ result' = [ raw |-> node,
                    fills |-> afterFills.varId,
                    strokes |-> afterStrokes.varId,
                    effects |-> afterEffects.varId,
                    opacity |-> IF node.opacity # 100 THEN node.opacity ELSE -1,
                    borderRadius |-> IF node.cornerRadius >= 0
                                     THEN <<node.cornerRadius, "px">> ELSE <<>> ]
     /\ UNCHANGED <<variables, variableCollections>>

\* the tree walker visits the nodes one after the other
ExtractNode ==
  \E node \in RawNodes :
    /\ visited < MaxNodes
    /\ visited' = visited + 1
    /\ visualsExtractor(node)

----------------------------------------------------------------------------
(* utils/variable-mappings.ts and its auto-refresh version: the mapping     *)
(* sources, the process-wide cache and getVariableMappings                  *)

CACHE_DURATION == 5 * 60 * 1000
FILE_CHECK_INTERVAL == 10 * 1000

MaxTicks == 3
MaxCalls == 3
MaxEdits == 1
MaxInFlight == 1

\* Date.now() when the process starts
StartTime == 1000000
TickSizes == {1, FILE_CHECK_INTERVAL, CACHE_DURATION}

\* a JavaScript array
Arr(items) == [t |-> "array", items |-> items]

\* possiblePaths of getLocalMappings, in the order tried
Paths == <<"cwd", "home", "install">>

Mapping(id, name) == [id |-> id, name |-> name, fromLocal |-> FALSE]

\* what a readable .figma-variables.json at path holds in its variableMappings
FileContent(path, version) ==
  CASE path = "cwd" /\ version = 1 -> <<Mapping(VarA, <<"Surface/Inverse">>)>>
    [] path = "cwd" -> <<Mapping(VarA, <<"Surface/Changed">>)>>
    [] path = "home" -> <<Mapping(VarA, <<"Home/Inverse">>)>>
    [] OTHER -> <<Mapping(VarA, <<"Package/Inverse">>)>>

\* what the remote endpoint serves
RemoteContent ==
  <<Mapping(VarA, <<"Remote/Inverse">>), Mapping(VarB, <<"Remote/Content">>)>>

FileStates == {"missing", "ok", "badjson", "nomappings"}
RemoteKinds == {"array", "wrapped", "notok", "throws", "invalid"}

\* mutation: a body of the wrong shape is passed on
fetchRemoteMappings_anybody(url, kind) ==
  IF ~url THEN <<>>
  ELSE CASE kind \in {"array", "wrapped", "invalid"} -> RemoteContent
         [] OTHER -> <<>>

\* fetchRemoteMappings once the response has arrived; url = FALSE when
\* FIGMA_VARIABLE_MAPPINGS_URL is not set
fetchRemoteMappings(url, kind) ==
  IF ~url THEN <<>>
  ELSE CASE kind = "array" -> RemoteContent
         [] kind = "wrapped" -> RemoteContent
         [] OTHER -> <<>>

\* fs.readFileSync(configPath) with JSON.parse: the file and the modification
\* time it had when read
ReadOf(fs, configPath) == [path |-> configPath, mtime |-> fs[configPath].mtime]

\* mutation: a candidate that cannot be used ends the search
RECURSIVE getLocalMappings_stops(_, _)
getLocalMappings_stops(fs, i) ==
  IF i > Len(Paths) THEN [mappings |-> <<>>, read |-> <<>>]
  ELSE LET configPath == Paths[i]
       IN IF fs[configPath].state = "missing" THEN getLocalMappings_stops(fs, i + 1)
          ELSE [ mappings |-> IF fs[configPath].state = "ok"
                              THEN FileContent(configPath, fs[configPath].version)
                              ELSE <<>>,
                 read |-> <<ReadOf(fs, configPath)>> ]

\* getLocalMappings of variable-mappings.ts from candidate i on: the mappings
\* returned and the files read on the way
RECURSIVE getLocalMappings(_, _)
getLocalMappings(fs, i) ==
  IF i > Len(Paths) THEN [mappings |-> <<>>, read |-> <<>>]
  ELSE LET configPath == Paths[i]
           rest == getLocalMappings(fs, i + 1)
       IN IF fs[configPath].state = "missing" THEN rest
          ELSE IF fs[configPath].state = "ok"
          THEN [ mappings |-> FileContent(configPath, fs[configPath].version),
                 read |-> <<ReadOf(fs, configPath)>> ]
          ELSE [mappings |-> rest.mappings, read |-> <<ReadOf(fs, configPath)>> \o rest.read]

\* getLocalMappings of the auto-refresh version: it also records the
\* modification times in fileModTimes (0: none recorded) and tells whether a
\* changed time made it reset cachedMappings
RECURSIVE getLocalMappingsRefresh(_, _, _)
getLocalMappingsRefresh(fs, modTimes, i) ==
  IF i > Len(Paths)
  THEN [mappings |-> <<>>, read |-> <<>>, modTimes |-> modTimes, reset |-> FALSE]
  ELSE LET configPath == Paths[i]
           lastMod == fs[configPath].mtime
           cachedMod == modTimes[configPath]
           changed == cachedMod # 0 /\ cachedMod # lastMod
           seen == [modTimes EXCEPT ![configPath] = lastMod]
       IN IF fs[configPath].state = "missing"
          THEN getLocalMappingsRefresh(fs, modTimes, i + 1)
          ELSE IF fs[configPath].state = "ok"
          THEN [ mappings |-> FileContent(configPath, fs[configPath].version),
                 read |-> <<ReadOf(fs, configPath)>>, modTimes |-> seen, reset |-> changed ]
          ELSE LET rest == getLocalMappingsRefresh(fs, seen, i + 1)
               IN [ mappings |-> rest.mappings, read |-> <<ReadOf(fs, configPath)>> \o rest.read,
                    modTimes |-> rest.modTimes, reset |-> changed \/ rest.reset ]

\* localMappings.forEach(m => m.fromLocal = true)
MarkLocal(m) == [m EXCEPT !.fromLocal = TRUE]

\* cachedMappings.filter(m => !m.fromLocal)
RECURSIVE FilterRemote(_)
FilterRemote(mappings) ==
  IF mappings = <<>> THEN <<>>
  ELSE IF Head(mappings).fromLocal THEN FilterRemote(Tail(mappings))
  ELSE <<Head(mappings)>> \o FilterRemote(Tail(mappings))

VARIABLES
  now,                \* Date.now()
  ticks,              \* the number of clock steps taken
  files,              \* the candidate files: state, mtime and content version
  remote,             \* the remote endpoint: url set, and how it answers
  edits,              \* the number of changes made to the sources
  cachedMappings,     \* module variable: null or the cached array
  cacheTimestamp,     \* module variable
  fileWatchTimestamp, \* module variable (auto-refresh version)
  fileModTimes,       \* module variable (auto-refresh version)
  inflight,           \* getVariableMappings calls suspended at their await
  history             \* the calls that have returned, in order of return

cacheVars ==
  <<now, ticks, files, remote, edits, cachedMappings, cacheTimestamp,
    fileWatchTimestamp, fileModTimes, inflight, history>>

sourceVars == <<files, remote, edits>>

NoFile == [state |-> "missing", mtime |-> 0, version |-> 1]
FileAt(version, mtime) == [state |-> "ok", mtime |-> mtime, version |-> version]

\* the sources and the module state when the process starts
StartCache(cwd, home, url) ==
  /\ now = StartTime
  /\ ticks = 0
  /\ files = [p \in {"cwd", "home", "install"} |->
                IF p = "cwd" /\ cwd THEN FileAt(1, StartTime - 1)
                ELSE IF p = "home" /\ home THEN FileAt(1, StartTime - 2)
                ELSE NoFile]
  /\ remote = [url |-> url, kind |-> "array"]
  /\ edits = 0
  /\ cachedMappings = Null
  /\ cacheTimestamp = 0
  /\ fileWatchTimestamp = 0
  /\ fileModTimes = [p \in {"cwd", "home", "install"} |-> 0]
  /\ inflight = <<>>
  /\ history = <<>>

IdleCache == StartCache(FALSE, FALSE, FALSE)

\* time passes
Tick ==
  \E d \in TickSizes :
    /\ ticks < MaxTicks
    /\ ticks' = ticks + 1
    /\ now' = now + d
    /\ UNCHANGED <<sourceVars, cachedMappings, cacheTimestamp, fileWatchTimestamp,
                   fileModTimes, inflight, history>>

\* somebody writes, breaks or removes a candidate file
EditFile ==
  \E p \in {"cwd", "home", "install"}, s \in FileStates :
    /\ edits < MaxEdits
    /\ now > files[p].mtime
    /\ s = "missing" => files[p].state # "missing"
    /\ edits' = edits + 1
    /\ files' = [files EXCEPT ![p] =
                   IF s = "missing" THEN NoFile
                   ELSE [state |-> s, mtime |-> now, version |-> 3 - files[p].version]]
    /\ UNCHANGED <<now, ticks, remote, cachedMappings, cacheTimestamp,
                   fileWatchTimestamp, fileModTimes, inflight, history>>

\* the remote endpoint starts to answer differently
EditRemote ==
  \E k \in RemoteKinds :
    /\ edits < MaxEdits
    /\ remote.url
    /\ k # remote.kind
    /\ edits' = edits + 1
    /\ remote' = [remote EXCEPT !.kind = k]
    /\ UNCHANGED <<now, ticks, files, cachedMappings, cacheTimestamp,
                   fileWatchTimestamp, fileModTimes, inflight, history>>

Started == Len(history) + Len(inflight)

\* the record of a returned call
Returned(start, fetched, checked, read, mappings) ==
  [ start |-> start, end |-> now, fetched |-> fetched, checkedLocal |-> checked,
    read |-> read, result |-> mappings, overlapped |-> inflight # <<>> ]

(* variable-mappings.ts *)

\* getVariableMappings up to its return from the cache or its await, with
\* at most cap calls suspended at a time
GetVariableMappingsStartUpTo(cap) ==
  /\ Started < MaxCalls
  /\ Len(inflight) < cap
  /\ IF cachedMappings # Null /\ now - cacheTimestamp < CACHE_DURATION
     THEN /\ history' = Append(history,
                 Returned(now, FALSE, FALSE, <<>>, cachedMappings.items))
          /\ UNCHANGED inflight
     ELSE /\ inflight' = Append(inflight,
                 [start |-> now, url |-> remote.url, kind |-> remote.kind,
                  overlapped |-> inflight # <<>>])
          /\ UNCHANGED history
  /\ UNCHANGED <<now, ticks, sourceVars, cachedMappings, cacheTimestamp,
                 fileWatchTimestamp, fileModTimes>>

GetVariableMappingsStart == GetVariableMappingsStartUpTo(MaxInFlight)

\* a version that keeps the cache it has when the fetch brought nothing
GetVariableMappingsFinish_keep ==
  \E c \in 1..Len(inflight) :
    LET call == inflight[c]
        remoteMappings == fetchRemoteMappings(call.url, call.kind)
        localMappings == getLocalMappings(files, 1)
        mappings == remoteMappings \o localMappings.mappings
        keep == remoteMappings = <<>> /\ cachedMappings # Null
    IN /\ cachedMappings' = IF keep THEN cachedMappings ELSE Arr(mappings)
       /\ cacheTimestamp' = now
       /\ inflight' = [i \in 1..(Len(inflight) - 1) |->
                         IF i < c THEN inflight[i] ELSE inflight[i + 1]]
       /\ history' = Append(history,
            [ Returned(call.start, call.url, TRUE, localMappings.read,
                       IF keep THEN cachedMappings.items ELSE mappings)
                EXCEPT !.overlapped = call.overlapped \/ Len(inflight) > 1 ])
       /\ UNCHANGED <<now, ticks, sourceVars, fileWatchTimestamp, fileModTimes>>

\* a version that assigns the cache before the local mappings are pushed
GetVariableMappingsFinish_early ==
  \E c \in 1..Len(inflight) :
    LET call == inflight[c]
        remoteMappings == fetchRemoteMappings(call.url, call.kind)
        localMappings == getLocalMappings(files, 1)
    IN /\ cachedMappings' = Arr(remoteMappings)
       /\ cacheTimestamp' = now
       /\ inflight' = [i \in 1..(Len(inflight) - 1) |->
                         IF i < c THEN inflight[i] ELSE inflight[i + 1]]
       /\ history' = Append(history,
            [ Returned(call.start, call.url, TRUE, localMappings.read,
                       remoteMappings \o localMappings.mappings)
                EXCEPT !.overlapped = call.overlapped \/ Len(inflight) > 1 ])
       /\ UNCHANGED <<now, ticks, sourceVars, fileWatchTimestamp, fileModTimes>>

\* the rest of getVariableMappings, once fetchRemoteMappings has settled
GetVariableMappingsFinish ==
  \E c \in 1..Len(inflight) :
    LET call == inflight[c]
        remoteMappings == fetchRemoteMappings(call.url, call.kind)
        localMappings == getLocalMappings(files, 1)
        mappings == remoteMappings \o localMappings.mappings
    IN /\ cachedMappings' = Arr(mappings)
       /\ cacheTimestamp' = now
       /\ inflight' = [i \in 1..(Len(inflight) - 1) |->
                         IF i < c THEN inflight[i] ELSE inflight[i + 1]]
       /\ history' = Append(history,
            [ Returned(call.start, call.url, TRUE, localMappings.read, mappings)
                EXCEPT !.overlapped = call.overlapped \/ Len(inflight) > 1 ])
       /\ UNCHANGED <<now, ticks, sourceVars, fileWatchTimestamp, fileModTimes>>

(* the auto-refresh version *)

\* the tail of getVariableMappings from `Always check local mappings` on;
\* remotePart is the fetched or the kept remote mappings
RefreshTail(start, fetched, overlapped, remotePart, rest) ==
  LET local == getLocalMappingsRefresh(files, fileModTimes, 1)
      cached == IF local.reset THEN Null ELSE cachedMappings
      mappings == remotePart \o Map(MarkLocal, local.mappings)
      update == \/ cached = Null
                \/ Len(mappings) # Len(cached.items)
                \/ mappings # cached.items
  IN /\ fileModTimes' = local.modTimes
     /\ cachedMappings' = IF update THEN Arr(mappings) ELSE cached
     /\ cacheTimestamp' = IF update THEN start ELSE cacheTimestamp
     /\ inflight' = rest
     /\ history' = Append(history,
          [ Returned(start, fetched, TRUE, local.read, mappings)
              EXCEPT !.overlapped = overlapped ])

\* a version that looks at the local files again only with the remote ones
RefreshStartUpTo_lazy(cap) ==
  LET shouldRefreshRemote ==
        cachedMappings = Null \/ now - cacheTimestamp > CACHE_DURATION
      shouldCheckLocal == cachedMappings = Null
  IN /\ Started < MaxCalls
     /\ Len(inflight) < cap
     /\ IF ~shouldRefreshRemote /\ ~shouldCheckLocal /\ cachedMappings # Null
        THEN /\ history' = Append(history,
                    Returned(now, FALSE, FALSE, <<>>, cachedMappings.items))
             /\ UNCHANGED <<inflight, cachedMappings, cacheTimestamp,
                            fileWatchTimestamp, fileModTimes>>
        ELSE /\ fileWatchTimestamp' = IF shouldCheckLocal THEN now ELSE fileWatchTimestamp
             /\ IF shouldRefreshRemote
                THEN /\ inflight' = Append(inflight,
                            [start |-> now, url |-> remote.url, kind |-> remote.kind,
                             overlapped |-> inflight # <<>>])
                     /\ UNCHANGED <<history, cachedMappings, cacheTimestamp, fileModTimes>>
                ELSE RefreshTail(now, FALSE, inflight # <<>>,
                                 FilterRemote(cachedMappings.items), inflight)
     /\ UNCHANGED <<now, ticks, sourceVars>>

\* getVariableMappings up to its return or its await, with at most cap calls
\* suspended at a time
RefreshStartUpTo(cap) ==
  LET shouldRefreshRemote ==
        cachedMappings = Null \/ now - cacheTimestamp > CACHE_DURATION
      shouldCheckLocal ==
        cachedMappings = Null \/ now - fileWatchTimestamp > FILE_CHECK_INTERVAL
  IN /\ Started < MaxCalls
     /\ Len(inflight) < cap
     /\ IF ~shouldRefreshRemote /\ ~shouldCheckLocal /\ cachedMappings # Null
        THEN /\ history' = Append(history,
                    Returned(now, FALSE, FALSE, <<>>, cachedMappings.items))
             /\ UNCHANGED <<inflight, cachedMappings, cacheTimestamp,
                            fileWatchTimestamp, fileModTimes>>
        ELSE /\ fileWatchTimestamp' = IF shouldCheckLocal THEN now ELSE fileWatchTimestamp
             /\ IF shouldRefreshRemote
                THEN /\ inflight' = Append(inflight,
                            [start |-> now, url |-> remote.url, kind |-> remote.kind,
                             overlapped |-> inflight # <<>>])
                     /\ UNCHANGED <<history, cachedMappings, cacheTimestamp, fileModTimes>>
                ELSE RefreshTail(now, FALSE, inflight # <<>>,
                                 FilterRemote(cachedMappings.items), inflight)
     /\ UNCHANGED <<now, ticks, sourceVars>>

RefreshStart == RefreshStartUpTo(MaxInFlight)

\* the rest of getVariableMappings, once fetchRemoteMappings has settled
RefreshFinish ==
  \E c \in 1..Len(inflight) :
    LET call == inflight[c]
    IN /\ RefreshTail(call.start, call.url, call.overlapped \/ Len(inflight) > 1,
                      fetchRemoteMappings(call.url, call.kind),
                      [i \in 1..(Len(inflight) - 1) |->
                         IF i < c THEN inflight[i] ELSE inflight[i + 1]])
       /\ UNCHANGED <<now, ticks, sourceVars, fileWatchTimestamp>>

----------------------------------------------------------------------------
(* utils/variable-resolver.ts: the state of the post-resolution pass *)

VARIABLES
  memory,            \* the design objects in memory, in order of creation
  calls,             \* the resolveVariablesInDesign calls made, in order
  designTokens,      \* the variable mappings parsed from design_system_tokens.json
  cachedTextStyles   \* the text styles parsed from it

resolveVars == <<memory, calls, designTokens, cachedTextStyles>>

\* no design extracted yet
IdleResolve ==
  /\ memory = <<>>
  /\ calls = <<>>
  /\ designTokens = <<>>
  /\ cachedTextStyles = <<>>

\* the component-set analyser: the node handed to enhanceComponentSetData
\* and what the call returned (Undefined before the call)
VARIABLES componentSet, enhanced

analyzeVars == <<componentSet, enhanced>>

IdleAnalyze == componentSet = Null /\ enhanced = Undefined

----------------------------------------------------------------------------
(* Specifications *)

vars == <<pureVars, storeVars, cacheVars, resolveVars, analyzeVars>>

InitPure == IdlePure /\ IdleStore /\ IdleCache /\ IdleResolve /\ IdleAnalyze

NextPure ==
  \/ Return /\ UNCHANGED <<storeVars, cacheVars, resolveVars, analyzeVars>>
  \/ CallParseVariantName /\ UNCHANGED <<storeVars, cacheVars, resolveVars, analyzeVars>>
  \/ CallFormatVariableReference /\ UNCHANGED <<storeVars, cacheVars, resolveVars, analyzeVars>>
  \/ CallResolveVariableFromMapping /\ UNCHANGED <<storeVars, cacheVars, resolveVars, analyzeVars>>

SpecPure == InitPure /\ [][NextPure]_vars

InitStore ==
  IdlePure /\ IdleCache /\ IdleResolve /\ IdleAnalyze /\ \E c \in Contexts : StartStore(c)

NextStore == ExtractNode /\ UNCHANGED <<pureVars, cacheVars, resolveVars, analyzeVars>>

SpecStore == InitStore /\ [][NextStore]_vars

\* the process of variable-mappings.ts
InitCache ==
  /\ IdlePure /\ IdleStore /\ IdleResolve /\ IdleAnalyze
  /\ \E cwd \in BOOLEAN, home \in BOOLEAN, url \in BOOLEAN : StartCache(cwd, home, url)

NextCache ==
  \/ Tick /\ UNCHANGED <<pureVars, storeVars, resolveVars, analyzeVars>>
  \/ EditFile /\ UNCHANGED <<pureVars, storeVars, resolveVars, analyzeVars>>
  \/ EditRemote /\ UNCHANGED <<pureVars, storeVars, resolveVars, analyzeVars>>
  \/ GetVariableMappingsStart /\ UNCHANGED <<pureVars, storeVars, resolveVars, analyzeVars>>
  \/ GetVariableMappingsFinish /\ UNCHANGED <<pureVars, storeVars, resolveVars, analyzeVars>>

SpecCache == InitCache /\ [][NextCache]_vars

\* the process of the auto-refresh version
NextRefresh ==
  \/ Tick /\ UNCHANGED <<pureVars, storeVars, resolveVars, analyzeVars>>
  \/ EditFile /\ UNCHANGED <<pureVars, storeVars, resolveVars, analyzeVars>>
  \/ EditRemote /\ UNCHANGED <<pureVars, storeVars, resolveVars, analyzeVars>>
  \/ RefreshStart /\ UNCHANGED <<pureVars, storeVars, resolveVars, analyzeVars>>
  \/ RefreshFinish /\ UNCHANGED <<pureVars, storeVars, resolveVars, analyzeVars>>

SpecRefresh == InitCache /\ [][NextRefresh]_vars

----------------------------------------------------------------------------
(* Properties of the pure functions *)

\* the smallest and the largest element of a non-empty set of integers
Min(S) == CHOOSE i \in S : \A j \in S : i <= j
Max(S) == CHOOSE i \in S : \A j \in S : i >= j

\* s without its leading and trailing blanks, stated by positions
Trimmed(s) ==
  LET solid == {i \in 1..Len(s) : s[i] # " "}
  IN IF solid = {} THEN <<>> ELSE SubSeq(s, Min(solid), Max(solid))

\* the segment of s that starts after position p (0 or the position of a comma)
SegmentAfter(s, p) ==
  LET later == {c \in (p + 1)..Len(s) : s[c] = ","}
  IN SubSeq(s, p + 1, IF later = {} THEN Len(s) ELSE Min(later) - 1)

SegmentStarts(s) == {0} \cup {c \in 1..Len(s) : s[c] = ","}

\* text of segment g before its first `=`, and between its first and second
SegmentKey(g) ==
  LET eqs == {e \in 1..Len(g) : g[e] = "="}
  IN Trimmed(IF eqs = {} THEN g ELSE SubSeq(g, 1, Min(eqs) - 1))
SegmentValue(g) ==
  LET eqs == {e \in 1..Len(g) : g[e] = "="}
      rest == eqs \ {Min(eqs)}
  IN IF eqs = {} THEN <<>>
     ELSE Trimmed(SubSeq(g, Min(eqs) + 1, IF rest = {} THEN Len(g) ELSE Min(rest) - 1))
SegmentUsable(g) == SegmentKey(g) # <<>> /\ SegmentValue(g) # <<>>

\* C3: parseVariantName maps the key of every comma-separated segment that
\* has a non-empty key and a non-empty value (both trimmed) to true/false when
\* the value is exactly "true"/"false" and to the unchanged string otherwise
\* (the last segment wins when a key repeats); segments lacking a key or a
\* value contribute nothing; "A=1,B=2" gives {A: "1", B: "2"}.
C3_ParseVariantName ==
  fn = "parseVariantName" =>
    LET starts == SegmentStarts(arg)
        usable == {p \in starts : SegmentUsable(SegmentAfter(arg, p))}
    IN /\ DOMAIN ret = {SegmentKey(SegmentAfter(arg, p)) : p \in usable}
       /\ \A p \in usable :
            LET g == SegmentAfter(arg, p)
                v == SegmentValue(g)
            IN (\A q \in usable : q > p => SegmentKey(SegmentAfter(arg, q)) # SegmentKey(g))
               => ret[SegmentKey(g)] =
                    (IF v = <<"true">> THEN Bool(TRUE)
                     ELSE IF v = <<"false">> THEN Bool(FALSE)
                     ELSE Str(v))
       /\ arg = ExampleAB =>
            ret = (<<"A">> :> Str(<<"1">>)) @@ (<<"B">> :> Str(<<"2">>))
       /\ arg = ExampleLayoutTitle =>
            ret = (<<"Layout">> :> Str(<<"Default">>)) @@ (<<"Title">> :> Bool(TRUE))

\* a name with a boolean property, a string property and a dropped segment
C3_Witness ==
  /\ fn = "parseVariantName"
  /\ arg = <<" ", "A", " ", "=", " ", "false", " ", ",", "=", "1", ",", "B", "=">>
  /\ ret = (<<"A">> :> Bool(FALSE))

\* the identifier without its VariableID: prefix
IdBody(id) ==
  IF StartsWith(id, VariableIDPrefix) THEN SubSeq(id, Len(VariableIDPrefix) + 1, Len(id))
  ELSE id

\* C5: formatVariableReference never returns null: a resolved name is returned
\* as it is; without one the result is Variable[p1:p2] when the identifier's
\* body has two colon-separated parts and Variable[body] otherwise, so
\* VariableID:12:34 formats as Variable[12:34].
C5_FormatVariableReference ==
  fn = "formatVariableReference" =>
    /\ ret.t = "str"
    /\ Truthy(arg.resolvedName) => ret = arg.resolvedName
    /\ ~Truthy(arg.resolvedName) =>
         LET body == IdBody(arg.variableId)
             colons == {c \in 1..Len(body) : body[c] = ":"}
         IN /\ ret.s[1] = "Variable[" /\ ret.s[Len(ret.s)] = "]"
            /\ IF Cardinality(colons) = 1
               THEN LET c == Min(colons)
                    IN ret.s = <<"Variable[">> \o SubSeq(body, 1, c - 1) \o <<":">>
                                 \o SubSeq(body, c + 1, Len(body)) \o <<"]">>
               ELSE ret.s = <<"Variable[">> \o body \o <<"]">>
            /\ arg.variableId = Example1234 =>
                 ret.s = <<"Variable[", "12", ":", "34", "]">>

\* the unresolvable identifier VariableID:12:34 has been formatted
C5_Witness ==
  /\ fn = "formatVariableReference"
  /\ arg = [variableId |-> Example1234, resolvedName |-> Null]
  /\ ret = Str(<<"Variable[", "12", ":", "34", "]">>)

\* C4 (as claimed): the bare and the namespaced form of an identifier resolve
\* to the same name, and an entry is found whether its stored id is written in
\* the bare or in the namespaced form, in the resolver of variable-mappings.ts
\* and in the design-token resolver alike.
StoredForms(x) == {x, VariableIDPrefix \o x}
HasEntryFor(allMappings, x) ==
  \E i \in 1..Len(allMappings) : allMappings[i].id \in StoredForms(x)
FirstEntryFor(allMappings, x) ==
  allMappings[Min({i \in 1..Len(allMappings) : allMappings[i].id \in StoredForms(x)})]

C4_FormsEquivalent ==
  fn = "resolveVariableFromMapping" =>
    /\ ret.bare = ret.full
    /\ ret.tokensBare = ret.tokensFull
    /\ IF HasEntryFor(arg.allMappings, arg.id)
       THEN /\ ret.bare = Str(FirstEntryFor(arg.allMappings, arg.id).name)
            /\ ret.tokensBare = Str(FirstEntryFor(arg.allMappings, arg.id).name)
       ELSE ret.bare = Null /\ ret.tokensBare = Null

\* the part of C4 that variable-mappings.ts satisfies
C4_FormsEquivalentPrimary ==
  fn = "resolveVariableFromMapping" =>
    /\ ret.bare = ret.full
    /\ IF HasEntryFor(arg.allMappings, arg.id)
       THEN ret.bare = Str(FirstEntryFor(arg.allMappings, arg.id).name)
       ELSE ret.bare = Null

----------------------------------------------------------------------------
(* Properties of the Value Store and of the visuals extractor *)

\* C1: interning is deduplicating: a payload equal to a stored one gets the
\* existing key and inserts nothing, so no two keys of the store hold equal
\* payloads, equal payloads of different nodes share one key, and the store
\* never has more entries than distinct payloads were interned.
C1_Deduplicating ==
  /\ \A i, j \in 1..Len(styles) :
       (styles[i].value = styles[j].value \/ styles[i].key = styles[j].key) => i = j
  /\ \A a, b \in 1..Len(interned) :
       interned[a].value = interned[b].value => interned[a].key = interned[b].key
  /\ \A a \in 1..Len(interned) :
       \E i \in 1..Len(styles) : styles[i].key = interned[a].key
  /\ Len(styles) <= Cardinality({interned[a].value : a \in 1..Len(interned)})

\* two nodes with equal fill lists share the one fill entry of the store
C1_Witness ==
  /\ Len(interned) = 2
  /\ interned[1].node # interned[2].node
  /\ interned[1].prefix = "fill" /\ interned[2].prefix = "fill"
  /\ interned[1].value = interned[2].value
  /\ interned[1].key = interned[2].key
  /\ Len(styles) = 1

\* C2 (as claimed): two interned payloads that are not deep-equal (fill lists
\* that differ only in the variable annotation included) get different keys,
\* and each payload is in the store unchanged under its key.
C2_DistinctKeys ==
  /\ \A a, b \in 1..Len(interned) :
       interned[a].value # interned[b].value => interned[a].key # interned[b].key
  /\ \A a \in 1..Len(interned) :
       \E i \in 1..Len(styles) :
         styles[i].key = interned[a].key /\ styles[i].value = interned[a].value

\* the resolveVariableName calls of the last extraction that had an identifier
NamedCalls ==
  {i \in 1..Len(resolveCalls) :
     Truthy(resolveCalls[i].binding) /\ resolveCalls[i].binding.id # <<>>}

\* the item written for call i of the last extraction
WrittenItem(i) ==
  LET c == resolveCalls[i]
      key == IF c.kind = "fill" THEN result.fills ELSE result.strokes
      entry == styles[CHOOSE k \in 1..Len(styles) : styles[k].key = key]
  IN IF c.kind = "fill" THEN entry.value.items[c.index] ELSE entry.value.colors[c.index]

\* C6 (as claimed): no mapping file and no mapping URL exist in this
\* specification, so an identifier that is not in the API-supplied table is
\* in no source: its fill or stroke is annotated with the placeholder string
\* of formatVariableReference, never with null or a pending value.
C6_PlaceholderAnnotation ==
  \A i \in NamedCalls :
    resolveCalls[i].binding.id \notin DOMAIN variables =>
      /\ resolveCalls[i].call.name = formatVariableReference(resolveCalls[i].binding.id, Null)
      /\ WrittenItem(i).t = "annotated"
      /\ WrittenItem(i).variable = formatVariableReference(resolveCalls[i].binding.id, Null)

\* C7: an identifier that is a key of the API-supplied table resolves to that
\* variable's name, prefixed with `Collection/` when its collection is in the
\* collection table, without the mapping being consulted; the mapping is
\* consulted only on a table miss, and the fallback format only after that.
C7_ResolutionOrder ==
  \A i \in NamedCalls :
    LET id == resolveCalls[i].binding.id
        call == resolveCalls[i].call
    IN /\ id \in DOMAIN variables =>
            /\ ~call.mapping /\ ~call.fallback
            /\ call.name =
                 Str(IF variables[id].variableCollectionId \in DOMAIN variableCollections
                     THEN variableCollections[variables[id].variableCollectionId].name
                            \o <<"/">> \o variables[id].name
                     ELSE variables[id].name)
       /\ call.mapping => id \notin DOMAIN variables
       /\ call.fallback => call.mapping /\ call.name.t = "str"

\* a fill bound to a variable of the table whose collection is present, next
\* to one whose identifier is not in the table
C7_Witness ==
  /\ \E i \in NamedCalls :
       /\ resolveCalls[i].binding.id = VarA
       /\ resolveCalls[i].call.name = Str(<<"Surface", "/", "Inverse">>)
       /\ WrittenItem(i).variable = Str(<<"Surface", "/", "Inverse">>)
  /\ interned # <<>>

----------------------------------------------------------------------------
(* Properties of the mapping cache *)

RemoteNames == {RemoteContent[i].name : i \in 1..Len(RemoteContent)}

\* C8 (as claimed): whenever the mappings returned by getVariableMappings hold
\* an entry of the remote endpoint and an entry of a local file for the same
\* identifier under different names, resolveVariableFromMapping over these
\* mappings returns the name of the local file.
C8_LocalBeforeRemote ==
  \A c \in 1..Len(history) :
    LET r == history[c].result
    IN \A j, k \in 1..Len(r) :
         (r[j].id = r[k].id /\ r[j].name \in RemoteNames /\ r[k].name \notin RemoteNames)
           => resolveVariableFromMapping(r[k].id, <<>>, r) = Str(r[k].name)

\* the calls up to call j ran one after the other
Sequential(j) == \A i \in 1..j : ~history[i].overlapped

\* C9 (as claimed): among calls made one after the other, a call that issues
\* a remote fetch starts at least CACHE_DURATION after the previous remote
\* fetch completed, and a call that starts more than CACHE_DURATION after the
\* previous remote fetch completed issues one.
C9_RemoteCachedFiveMinutes ==
  \A j \in 1..Len(history) :
    LET earlier == {i \in 1..(j - 1) : history[i].fetched}
    IN (Sequential(j) /\ earlier # {}) =>
         LET prev == history[Max(earlier)]
         IN /\ history[j].fetched => history[j].start - prev.end >= CACHE_DURATION
            /\ history[j].start - prev.end > CACHE_DURATION => history[j].fetched

\* the reads of call c, as a set
ReadsOf(c) == {history[c].read[i] : i \in 1..Len(history[c].read)}

\* C10 (as claimed): among calls made one after the other, no call reads a
\* local file that an earlier call read with the same modification time, and
\* two calls that check the local files start at least FILE_CHECK_INTERVAL
\* apart.
C10_LocalReadOnChange ==
  \A j \in 1..Len(history) :
    Sequential(j) =>
      \A i \in 1..(j - 1) :
        /\ ReadsOf(i) \cap ReadsOf(j) = {}
        /\ (history[i].checkedLocal /\ history[j].checkedLocal)
             => history[j].start - history[i].start >= FILE_CHECK_INTERVAL

----------------------------------------------------------------------------
(* The mapping sources in any state at the first call *)

\* a candidate file in state s when the process starts
FileIn(s, mtime) ==
  IF s = "missing" THEN NoFile ELSE [state |-> s, mtime |-> mtime, version |-> 1]

\* the process starts with the candidate files in the states fs and the
\* endpoint answering in the way kind
StartSources(fs, url, kind) ==
  /\ now = StartTime
  /\ ticks = 0
  /\ files = [p \in {"cwd", "home", "install"} |-> FileIn(fs[p], StartTime - 1)]
  /\ remote = [url |-> url, kind |-> kind]
  /\ edits = 0
  /\ cachedMappings = Null
  /\ cacheTimestamp = 0
  /\ fileWatchTimestamp = 0
  /\ fileModTimes = [p \in {"cwd", "home", "install"} |-> 0]
  /\ inflight = <<>>
  /\ history = <<>>

InitSources ==
  /\ IdlePure
  /\ IdleStore
  /\ IdleResolve
  /\ IdleAnalyze
  /\ \E fs \in [{"cwd", "home", "install"} -> FileStates],
        url \in BOOLEAN, kind \in RemoteKinds :
       /\ ~url => kind = "array"
       /\ StartSources(fs, url, kind)

\* variable-mappings.ts over unchanging sources
NextSources ==
  \/ GetVariableMappingsStart /\ UNCHANGED <<pureVars, storeVars, resolveVars, analyzeVars>>
  \/ GetVariableMappingsFinish /\ UNCHANGED <<pureVars, storeVars, resolveVars, analyzeVars>>

SpecSources == InitSources /\ [][NextSources]_vars

\* the auto-refresh version over unchanging sources
NextSourcesRefresh ==
  \/ RefreshStart /\ UNCHANGED <<pureVars, storeVars, resolveVars, analyzeVars>>
  \/ RefreshFinish /\ UNCHANGED <<pureVars, storeVars, resolveVars, analyzeVars>>

SpecSourcesRefresh == InitSources /\ [][NextSourcesRefresh]_vars

\* the candidates that exist, parse and hold a variableMappings array
Usable == {i \in 1..Len(Paths) : files[Paths[i]].state = "ok"}

\* the mappings of the first usable candidate
FirstUsable ==
  IF Usable = {} THEN <<>>
  ELSE FileContent(Paths[Min(Usable)], files[Paths[Min(Usable)]].version)

\* the ways a remote fetch fails
FailingKinds == {"notok", "throws", "invalid"}

\* C11: with the mapping URL set and the endpoint throwing, answering non-OK
\* or serving a body that is neither an array nor {mappings: [...]}, every
\* getVariableMappings call returns exactly the mappings of the local file
\* (the remote part is empty, nothing is raised), and every identifier the
\* local file maps resolves to its local name.
C11_FailOpenRemote ==
  (remote.url /\ remote.kind \in FailingKinds) =>
    /\ fetchRemoteMappings(remote.url, remote.kind) = <<>>
    /\ \A c \in 1..Len(history) :
         /\ history[c].result = FirstUsable
         /\ \A k \in 1..Len(FirstUsable) :
              resolveVariableFromMapping(FirstUsable[k].id, <<>>, history[c].result)
                = Str(FirstUsable[k].name)

\* a call fetched from a throwing endpoint and returned the mappings of the
\* home directory's file
C11_Witness ==
  /\ remote.url /\ remote.kind = "throws"
  /\ files["cwd"].state = "missing" /\ files["home"].state = "ok"
  /\ \E c \in 1..Len(history) :
       /\ history[c].fetched
       /\ history[c].result = FileContent("home", 1)

\* the entries of mappings that do not come from the remote endpoint
LocalPart(mappings) == SelectSeq(mappings, LAMBDA m : m.name \notin RemoteNames)

\* the identifiers and names of mappings, without the fromLocal mark
Named(mappings) ==
  [i \in 1..Len(mappings) |-> [id |-> mappings[i].id, name |-> mappings[i].name]]

PathIndex(p) == CHOOSE i \in 1..Len(Paths) : Paths[i] = p

\* the candidates getLocalMappings has to open: those that exist, in order,
\* up to the first usable one
Tried ==
  SelectSeq(Paths, LAMBDA p : /\ files[p].state # "missing"
                              /\ \A i \in Usable : PathIndex(p) <= i)

\* C12: every call that consults the local files opens the existing
\* candidates in the order working directory, home directory, install
\* directory, passes over those that are missing, do not parse or hold no
\* variableMappings array, stops at the first usable one and returns its
\* mappings, and returns no local mappings when none is usable.
C12_CandidateOrder ==
  \A c \in 1..Len(history) :
    history[c].checkedLocal =>
      /\ Named(LocalPart(history[c].result)) = Named(FirstUsable)
      /\ Len(history[c].read) = Len(Tried)
      /\ \A i \in 1..Len(Tried) : history[c].read[i].path = Tried[i]

\* the working directory's file does not parse, the home directory's holds no
\* array, and the call returned the install directory's mappings
C12_Witness ==
  /\ files["cwd"].state = "badjson"
  /\ files["home"].state = "nomappings"
  /\ files["install"].state = "ok"
  /\ \E c \in 1..Len(history) :
       /\ history[c].checkedLocal
       /\ Len(history[c].read) = 3
       /\ Named(LocalPart(history[c].result)) = Named(FileContent("install", 1))

----------------------------------------------------------------------------
(* utils/variable-resolver.ts: resolveVariablesInDesign *)

\* a plain object: its own enumerable properties
Obj(f) == [t |-> "object", fields |-> f]
NoFields == [k \in {} |-> Null]

\* `k in o` and o[k] for a plain object o
In(k, o) == k \in DOMAIN o.fields
Get(o, k) == IF o.t = "object" /\ In(k, o) THEN o.fields[k] ELSE Undefined
Set(o, k, v) == Obj([j \in DOMAIN o.fields \cup {k} |-> IF j = k THEN v ELSE o.fields[j]])

\* JSON.parse(JSON.stringify(data)): a fresh tree; a Promise has no own
\* enumerable property and comes back as {}
RECURSIVE JSONclone(_)
JSONclone(data) ==
  CASE data.t = "promise" -> Obj(NoFields)
    [] data.t = "array" -> Arr([i \in 1..Len(data.items) |-> JSONclone(data.items[i])])
    [] data.t = "object" -> Obj([k \in DOMAIN data.fields |-> JSONclone(data.fields[k])])
    [] OTHER -> data

\* item && typeof item === 'object' && 'variable' in item
CarriesVariable(item) == item.t = "object" /\ In("variable", item)

\* findVariableIds: the values it adds to the set
RECURSIVE findVariableIds(_)
findVariableIds(data) ==
  IF ~Truthy(data) THEN {}
  ELSE IF data.t = "array"
  THEN UNION { IF CarriesVariable(data.items[i])
               THEN {data.items[i].fields["variable"]}
               ELSE findVariableIds(data.items[i]) : i \in 1..Len(data.items) }
  ELSE IF data.t = "object"
  THEN (IF In("variable", data) THEN {data.fields["variable"]} ELSE {})
         \cup UNION {findVariableIds(data.fields[k]) : k \in DOMAIN data.fields}
  ELSE {}

\* s.endsWith(p)
EndsWith(s, p) == Len(s) >= Len(p) /\ SubSeq(s, Len(s) - Len(p) + 1, Len(s)) = p

\* s.slice(9, -1) of a string that starts with 'Variable[': these nine
\* characters are its first token; the last token of every string here is
\* one character
SliceIdPart(s) == SubSeq(s, 2, Len(s) - 1)

\* the identifier looked up for a collected reference
LookupId(varId) ==
  IF StartsWith(varId, <<"Variable[">>) /\ EndsWith(varId, <<"]">>)
  THEN VariableIDPrefix \o SliceIdPart(varId)
  ELSE varId

\* the resolutions map built from the collected strings
Resolutions(variableIds, allMappings) ==
  LET found == {varId \in variableIds :
                  Truthy(resolveVariableFromMappingTokens(LookupId(varId), allMappings))}
  IN [varId \in found |-> resolveVariableFromMappingTokens(LookupId(varId), allMappings)]

\* mutation: an identifier that is already kept is prefixed once more
RewriteVariable_reprefix(item, resolutions) ==
  LET variable == item.fields["variable"]
      kept == IF Truthy(Get(item, "variableId"))
              THEN Set(item, "variableId", Str(VariableIDPrefix \o Get(item, "variableId").s))
              ELSE Set(item, "variableId", variable)
  IN IF variable.t = "str" /\ variable.s \in DOMAIN resolutions
     THEN Set(kept, "variable", resolutions[variable.s])
     ELSE IF Truthy(Get(item, "variableId")) THEN kept ELSE item

\* the body of `if ('variable' in item)` in applyResolutions
RewriteVariable(item, resolutions) ==
  LET variable == item.fields["variable"]
  IN IF variable.t = "str" /\ variable.s \in DOMAIN resolutions
     THEN LET kept ==
                IF ~Truthy(Get(item, "variableId")) /\ StartsWith(variable.s, <<"Variable[">>)
                THEN Set(item, "variableId", Str(VariableIDPrefix \o SliceIdPart(variable.s)))
                ELSE IF ~Truthy(Get(item, "variableId"))
                THEN Set(item, "variableId", variable)
                ELSE item
          IN Set(kept, "variable", resolutions[variable.s])
     ELSE item

\* applyResolutions: data after the in-place rewrite
RECURSIVE applyResolutions(_, _)
applyResolutions(data, resolutions) ==
  IF ~Truthy(data) THEN data
  ELSE IF data.t = "array"
  THEN Arr([i \in 1..Len(data.items) |->
              IF CarriesVariable(data.items[i])
              THEN RewriteVariable(data.items[i], resolutions)
              ELSE applyResolutions(data.items[i], resolutions)])
  ELSE IF data.t = "object"
  THEN LET own == IF In("variable", data) THEN RewriteVariable(data, resolutions)
                  ELSE data
       IN Obj([k \in DOMAIN own.fields |-> applyResolutions(own.fields[k], resolutions)])
  ELSE data

(* text styles (the design-token version of utils/variable-mappings.ts) *)

\* textStyles.find(s => s.styleId === styleId), then .name
FindTextStyle(textStyles, styleId) ==
  LET hits == {i \in 1..Len(textStyles) : textStyles[i].styleId = styleId}
  IN IF hits = {} THEN Null ELSE Str(textStyles[Min(hits)].name)

\* a lookup that tries the exact identifier only
resolveTextStyleFromMapping_exact(styleId, textStyles) ==
  FindTextStyle(textStyles, styleId)

\* resolveTextStyleFromMapping for a string styleId: the exact identifier,
\* then with the prefix 'S:' added, then with it removed
resolveTextStyleFromMapping(styleId, textStyles) ==
  LET exact == FindTextStyle(textStyles, styleId)
      prefixed == FindTextStyle(textStyles, <<"S", ":">> \o styleId)
      bare == FindTextStyle(textStyles, SubSeq(styleId, 3, Len(styleId)))
  IN IF exact # Null THEN exact
     ELSE IF ~StartsWith(styleId, <<"S", ":">>) THEN prefixed
     ELSE bare

\* c.toLowerCase() for one character
Lower(c) == CASE c = "I" -> "i" [] c = "N" -> "n" [] OTHER -> c

\* family.toLowerCase().replace(/\s+/g, '')
RECURSIVE NormalizeFamily(_)
NormalizeFamily(family) ==
  IF family = <<>> THEN <<>>
  ELSE IF Head(family) = " " THEN NormalizeFamily(Tail(family))
  ELSE <<Lower(Head(family))>> \o NormalizeFamily(Tail(family))

\* a callback that asks for equality on family, size and weight alike
TextStyleMatches_strict(style, properties) ==
  /\ properties.fontFamily.t = "str" /\ style.properties.fontFamily.t = "str"
  /\ NormalizeFamily(properties.fontFamily.s) = NormalizeFamily(style.properties.fontFamily.s)
  /\ style.properties.fontSize = properties.fontSize
  /\ style.properties.fontWeight = properties.fontWeight

\* the callback of textStyles.find in resolveTextStyleByProperties
TextStyleMatches(style, properties) ==
  LET normalizedFamily == IF properties.fontFamily.t = "str"
                          THEN NormalizeFamily(properties.fontFamily.s) ELSE <<>>
      styleFamilyNorm == IF style.properties.fontFamily.t = "str"
                         THEN NormalizeFamily(style.properties.fontFamily.s) ELSE <<>>
  IN /\ ~(normalizedFamily # <<>> /\ styleFamilyNorm # <<>>
            /\ normalizedFamily # styleFamilyNorm)
     /\ ~(properties.fontSize # Undefined
            /\ style.properties.fontSize # properties.fontSize)
     /\ ~(properties.fontWeight # Undefined
            /\ style.properties.fontWeight # properties.fontWeight)

\* resolveTextStyleByProperties
resolveTextStyleByProperties(properties, textStyles) ==
  LET hits == {i \in 1..Len(textStyles) : TextStyleMatches(textStyles[i], properties)}
  IN IF hits = {} THEN Null ELSE Str(textStyles[Min(hits)].name)

\* what resolveTextStyles leaves under one key of the store; a textStyleId
\* is a string wherever it is present
ResolveTextStyle(styleData, textStyles) ==
  IF ~(Truthy(styleData) /\ styleData.t \in {"object", "array"}) THEN styleData
  ELSE LET textStyleId == Get(styleData, "textStyleId")
       IN IF ~Truthy(textStyleId) THEN styleData
          ELSE LET byId == resolveTextStyleFromMapping(textStyleId.s, textStyles)
                   resolvedName ==
                     IF ~Truthy(byId) /\ Truthy(Get(styleData, "fontFamily"))
                     THEN resolveTextStyleByProperties(
                            [ fontFamily |-> Get(styleData, "fontFamily"),
                              fontSize |-> Get(styleData, "fontSize"),
                              fontWeight |-> Get(styleData, "fontWeight"),
                              lineHeight |-> Get(styleData, "lineHeight") ], textStyles)
                     ELSE byId
               IN IF Truthy(resolvedName) THEN resolvedName ELSE styleData

\* mutation: a resolved text style is dropped from the store
resolveTextStyles_drop(data, textStyles) ==
  IF ~(Truthy(Get(data, "globalVars")) /\ Truthy(Get(Get(data, "globalVars"), "styles")))
  THEN data
  ELSE LET store == Get(Get(data, "globalVars"), "styles")
           kept == {k \in DOMAIN store.fields :
                      ResolveTextStyle(store.fields[k], textStyles) = store.fields[k]}
       IN Set(data, "globalVars",
              Set(Get(data, "globalVars"), "styles", Obj([k \in kept |-> store.fields[k]])))

\* resolveTextStyles: data after the in-place replacement
resolveTextStyles(data, textStyles) ==
  IF ~(Truthy(Get(data, "globalVars")) /\ Truthy(Get(Get(data, "globalVars"), "styles")))
  THEN data
  ELSE LET store == Get(Get(data, "globalVars"), "styles")
       IN Set(data, "globalVars",
              Set(Get(data, "globalVars"), "styles",
                  Obj([k \in DOMAIN store.fields |->
                         ResolveTextStyle(store.fields[k], textStyles)])))

\* mutation: the passes work on the caller's object
CloneDesign_alias(simplifiedDesign) == [fresh |-> FALSE, value |-> simplifiedDesign]

\* const resolved = JSON.parse(JSON.stringify(simplifiedDesign)): a fresh
\* object, or the caller's own
CloneDesign(simplifiedDesign) == [fresh |-> TRUE, value |-> JSONclone(simplifiedDesign)]

\* resolved.globalVars && resolved.globalVars.styles
HasStore(design) ==
  Truthy(Get(design, "globalVars")) /\ Truthy(Get(Get(design, "globalVars"), "styles"))
StoreOf(design) == Get(Get(design, "globalVars"), "styles").fields

\* a result built from the store alone
WithStore_only(design, store) == Obj("globalVars" :> Obj("styles" :> Obj(store)))

WithStore(design, store) ==
  Set(design, "globalVars", Set(Get(design, "globalVars"), "styles", Obj(store)))

\* phase 1: everything findVariableIds collects over the store
CollectedIds(design) ==
  IF HasStore(design)
  THEN UNION {findVariableIds(StoreOf(design)[k]) : k \in DOMAIN StoreOf(design)}
  ELSE {}

\* resolveVariablesInDesign from the clone on: whether it raised (a collected
\* value that is no string has no startsWith) and the working object then
resolveVariablesInDesign(resolved, allMappings, textStyles) ==
  LET variableIds == CollectedIds(resolved)
      resolutions == Resolutions({v.s : v \in {w \in variableIds : w.t = "str"}}, allMappings)
      applied == IF HasStore(resolved)
                 THEN WithStore(resolved,
                        [k \in DOMAIN StoreOf(resolved) |->
                           applyResolutions(StoreOf(resolved)[k], resolutions)])
                 ELSE resolved
  IN IF \E v \in variableIds : v.t # "str"
     THEN [raised |-> TRUE, value |-> resolved]
     ELSE [raised |-> FALSE, value |-> resolveTextStyles(applied, textStyles)]

MaxEntries == 2
MaxPasses == 2

PlaceholderA == formatVariableReference(VarA, Null)
PlaceholderB == formatVariableReference(VarB, Null)
TokenNameA == <<"RegainColors.surfaceInverse">>
TokenNameB == <<"RegainColors.contentPrimary">>

\* what the extractors leave in a `variable` field: a placeholder, a raw
\* identifier, a name of the API table, or the Promise of the mapping lookup
VariableValues ==
  {PlaceholderA, PlaceholderB, Str(VarA), Str(<<"Surface", "/", "Inverse">>), Promise(VarA)}

Annotated(v) == Obj("color" :> Str(<<"#000000">>) @@ "variable" :> v)

\* fill entries: plain, annotated, annotated with an annotated object inside,
\* and one that already carries another variableId
FillEntries ==
  {Arr(<<Str(<<"#FCFFFA">>)>>)}
    \cup {Arr(<<Annotated(v)>>) : v \in VariableValues}
    \cup {Arr(<<Set(Annotated(PlaceholderA), "gradient", Annotated(PlaceholderB))>>),
          Arr(<<Set(Annotated(PlaceholderA), "variableId", Str(VarB))>>)}

StrokeEntries ==
  {Obj("colors" :> Arr(<<Annotated(v)>>) @@ "strokeWeight" :> Str(<<"1", "px">>)) :
     v \in VariableValues}
    \cup {Obj("variable" :> PlaceholderB @@ "inner" :> Annotated(PlaceholderA))}

TextEntries ==
  {Obj("fontFamily" :> Str(<<"I", "n">>) @@ "fontSize" :> Num(16)
         @@ "fontWeight" :> Num(w) @@ "textStyleId" :> Str(id)) :
     w \in {400, 700}, id \in {<<"S", ":", "1">>, <<"1">>, <<"S", ":", "2">>}}
    \cup {Obj("fontFamily" :> Str(<<"I", "n">>) @@ "fontSize" :> Num(16)),
          Obj("textStyleId" :> Str(<<"S", ":", "2">>) @@ "fontSize" :> Num(16))}

EntriesOf(k) ==
  CASE k = "fill_1" -> FillEntries
    [] k = "stroke_1" -> StrokeEntries
    [] OTHER -> TextEntries

StyleKeys == {"fill_1", "stroke_1", "text_1"}

\* what a simplified design holds beside globalVars: the file's name and
\* date, and nodes that refer to entries of the store by key
DesignFrame ==
  "name" :> Str(<<"d">>)
    @@ "lastModified" :> Str(<<"2", "0", "2", "5">>)
    @@ "thumbnailUrl" :> Str(<<"u">>)
    @@ "nodes" :> Arr(<<Obj("id" :> Str(<<"1", ":", "2">>)
                            @@ "fills" :> Str(<<"fill_1">>)
                            @@ "children" :> Arr(<<Obj("id" :> Str(<<"1", ":", "3">>)
                                                       @@ "textStyle" :> Str(<<"text_1">>))>>))>>)
    @@ "components" :> Obj("1:9" :> Obj("name" :> Str(<<"Title">>)))
    @@ "componentSets" :> Obj(NoFields)

FrameFields == {"name", "lastModified", "thumbnailUrl", "nodes", "components", "componentSets"}

\* simplified designs: a store of at most MaxEntries entries, or none
Designs ==
  {Obj(DesignFrame)}
    \cup UNION { { Obj(DesignFrame
                        @@ "globalVars" :> Obj("styles" :> Obj([k \in K |-> e[k]]))) :
                   e \in {f \in [K -> UNION {EntriesOf(k) : k \in K}] :
                            \A k \in K : f[k] \in EntriesOf(k)} } :
                 K \in {S \in SUBSET StyleKeys : Cardinality(S) <= MaxEntries} }

\* the mappings of the token file: none (file missing or malformed), one
\* variable, both, and one stored without the 'VariableID:' prefix
TokenTables ==
  { <<>>,
    <<Mapping(VarA, TokenNameA)>>,
    <<Mapping(VarA, TokenNameA), Mapping(VarB, TokenNameB)>>,
    <<Mapping(<<"5", ":", "7">>, TokenNameA)>> }

TextStyle(id, name, weight) ==
  [ styleId |-> id, name |-> name,
    properties |-> [fontFamily |-> Str(<<"i", " ", "N">>), fontSize |-> Num(16),
                    fontWeight |-> Num(weight)] ]

TextStyleTables ==
  { <<>>,
    <<TextStyle(<<"S", ":", "1">>, <<"Typography.body">>, 400)>>,
    <<TextStyle(<<"9">>, <<"Typography.strong">>, 700)>>,
    <<TextStyle(<<"2">>, <<"Typography.caption">>, 700),
      TextStyle(<<"S", ":", "1">>, <<"Typography.body">>, 400)>> }

\* an extracted design in memory and the token file parsed
StartResolve(design, tokens, table) ==
  /\ memory = <<design>>
  /\ calls = <<>>
  /\ designTokens = tokens
  /\ cachedTextStyles = table

InitResolve ==
  /\ IdlePure
  /\ IdleStore
  /\ IdleCache
  /\ IdleAnalyze
  /\ \E design \in Designs, tokens \in TokenTables, table \in TextStyleTables :
       StartResolve(design, tokens, table)

\* one call of resolveVariablesInDesign: on the extracted design first, then
\* on what the previous call returned
ResolveVariablesInDesign ==
  /\ Len(calls) < MaxPasses
  /\ calls # <<>> => ~calls[Len(calls)].raised
  /\ LET input == IF calls = <<>> THEN 1 ELSE calls[Len(calls)].output
         work == CloneDesign(memory[input])
         res == resolveVariablesInDesign(work.value, designTokens, cachedTextStyles)
         target == IF work.fresh THEN Len(memory) + 1 ELSE input
     IN /\ memory' = IF work.fresh THEN Append(memory, res.value)
                     ELSE [memory EXCEPT ![input] = res.value]
        /\ calls' = Append(calls, [ input |-> input, before |-> memory[input],
                                    raised |-> res.raised, output |-> target ])
  /\ UNCHANGED <<designTokens, cachedTextStyles>>

NextResolve ==
  ResolveVariablesInDesign /\ UNCHANGED <<pureVars, storeVars, cacheVars, analyzeVars>>

SpecResolve == InitResolve /\ [][NextResolve]_vars

----------------------------------------------------------------------------
(* Properties of the post-resolution pass *)

\* C13: after every resolveVariablesInDesign call, whether it returned or
\* raised, the object it was given, with everything nested in its
\* globalVars.styles, is what it was when the call was made.
C13_InputNotMutated ==
  \A c \in 1..Len(calls) : memory[calls[c].input] = calls[c].before

\* a call returned a design in which the passes rewrote something
C13_Witness ==
  \E c \in 1..Len(calls) :
    /\ ~calls[c].raised
    /\ calls[c].output # calls[c].input
    /\ memory[calls[c].output] # JSONclone(calls[c].before)
    /\ memory[calls[c].input] = calls[c].before

\* the canonical identifier a reference stands for
CanonicalId(ref) ==
  IF StartsWith(ref, <<"Variable[">>) /\ EndsWith(ref, <<"]">>)
  THEN VariableIDPrefix \o SubSeq(ref, 2, Len(ref) - 1)
  ELSE IF StartsWith(ref, VariableIDPrefix) THEN ref
  ELSE VariableIDPrefix \o ref

\* the name the token file gives a reference; Null when it gives none
NameFor(ref) == FindMapping(designTokens, CanonicalId(ref), CanonicalId(ref))

\* the object `was` carries a reference that resolves, and `is` is that
\* object rewritten: the name in `variable`, the canonical identifier in
\* `variableId` unless one was there, which is kept
RewrittenAs(was, is) ==
  LET variable == was.fields["variable"]
  IN (variable.t = "str" /\ NameFor(variable.s) # Null) =>
       /\ Get(is, "variable") = NameFor(variable.s)
       /\ Get(is, "variableId") = IF In("variableId", was) THEN was.fields["variableId"]
                                  ELSE Str(CanonicalId(variable.s))

\* every object of the tree `was` that carries a `variable` field, at any
\* depth, is rewritten in the tree `is`
RECURSIVE RewrittenAll(_, _)
RewrittenAll(was, is) ==
  CASE was.t = "array" ->
         \A i \in 1..Len(was.items) :
           RewrittenAll(was.items[i],
                        IF is.t = "array" /\ i <= Len(is.items) THEN is.items[i]
                        ELSE Undefined)
    [] was.t = "object" ->
         /\ In("variable", was) => RewrittenAs(was, is)
         /\ \A k \in DOMAIN was.fields : RewrittenAll(was.fields[k], Get(is, k))
    [] OTHER -> TRUE

\* the calls that returned a design made from a design with a store
ReturnedCalls == {c \in 1..Len(calls) : ~calls[c].raised /\ HasStore(calls[c].before)}
StoreBefore(c) == StoreOf(JSONclone(calls[c].before))
StoreAfter(c) == StoreOf(memory[calls[c].output])

\* C14 (as claimed): in the design a call returns, every object of the Value
\* Store that carried a `variable` reference the token file resolves has the
\* name in `variable` and the canonical identifier in `variableId`, an
\* identifier that was already there being kept.
C14_RewriteKeepsIdentifier ==
  \A c \in ReturnedCalls :
    \A k \in DOMAIN StoreBefore(c) :
      RewrittenAll(StoreBefore(c)[k], Get(Obj(StoreAfter(c)), k))

\* C15: when resolveVariablesInDesign is called on the design a call with
\* the same token file returned, it returns an equal design: no `variable`
\* and no `variableId` field (nor anything else) changes.
C15_Idempotent ==
  \A c \in 2..Len(calls) :
    (~calls[c].raised /\ calls[c].input = calls[c - 1].output)
      => memory[calls[c].output] = memory[calls[c].input]

\* the first call rewrote a reference and the second call returned
C15_Witness ==
  /\ Len(calls) = 2
  /\ ~calls[1].raised /\ ~calls[2].raised
  /\ calls[2].input = calls[1].output /\ calls[2].output # calls[2].input
  /\ memory[calls[1].output] # JSONclone(calls[1].before)
  /\ \E k \in DOMAIN StoreAfter(1) :
       StoreAfter(1)[k].t = "array"
         /\ Get(StoreAfter(1)[k].items[1], "variableId") = Str(VarA)
         /\ Get(StoreAfter(2)[k].items[1], "variableId") = Str(VarA)

\* the values of the `variable` fields of all objects of a tree, at any depth
RECURSIVE CarriedValues(_)
CarriedValues(data) ==
  CASE data.t = "array" -> UNION {CarriedValues(data.items[i]) : i \in 1..Len(data.items)}
    [] data.t = "object" ->
         (IF In("variable", data) THEN {data.fields["variable"]} ELSE {})
           \cup UNION {CarriedValues(data.fields[k]) : k \in DOMAIN data.fields}
    [] OTHER -> {}

\* C16 (as claimed): for every call that returns, phase 1 has collected the
\* reference of every object that carries a `variable` field at any depth of
\* any store entry, objects inside an array element that itself carries one
\* included, and phase 3 has rewritten each of them that resolves.
C16_ScanComplete ==
  \A c \in ReturnedCalls :
    \A k \in DOMAIN StoreBefore(c) :
      /\ CarriedValues(StoreBefore(c)[k]) \subseteq CollectedIds(JSONclone(calls[c].before))
      /\ RewrittenAll(StoreBefore(c)[k], Get(Obj(StoreAfter(c)), k))

\* C17 (as claimed): every call of resolveVariablesInDesign on a design of
\* the extractors returns a design, whatever the token file holds: none
\* raises.
C17_NeverRaises ==
  \A c \in 1..Len(calls) : ~calls[c].raised

\* the keys of the store of a design (none without a store)
KeysOf(design) == IF HasStore(design) THEN DOMAIN StoreOf(design) ELSE {}

\* C18: the design a call returns has a store exactly when the design it was
\* given has one, and with exactly the same keys: entries are rewritten or
\* replaced by a text-style name under their key, never removed or renamed.
C18_KeysPreserved ==
  \A c \in 1..Len(calls) :
    ~calls[c].raised =>
      /\ HasStore(memory[calls[c].output]) = HasStore(calls[c].before)
      /\ KeysOf(memory[calls[c].output]) = KeysOf(calls[c].before)

\* a call replaced a text-style entry by its name and rewrote a fill, both
\* under their keys
C18_Witness ==
  \E c \in 1..Len(calls) :
    /\ ~calls[c].raised
    /\ KeysOf(calls[c].before) = {"fill_1", "text_1"}
    /\ StoreAfter(c)["text_1"] = Str(<<"Typography.body">>)
    /\ StoreOf(calls[c].before)["text_1"].t = "object"
    /\ StoreAfter(c)["fill_1"] # StoreOf(calls[c].before)["fill_1"]

----------------------------------------------------------------------------
(* utils/property-parser.ts: property definitions and visibility rules *)

(* Names are token sequences in which the words the analyser's literals
   mention ("title", "icon", "trailing", "image", "profile") are tokens of
   their own, in either case; a digit is one token. *)
Digits == {"0", "1", "2", "3", "4", "5", "6", "7", "8", "9"}

\* w.toLowerCase() for one token
LowerWord(w) ==
  CASE w = "Title" -> "title"
    [] w = "Image" -> "image"
    [] w = "Trailing" -> "trailing"
    [] w = "Icon" -> "icon"
    [] w = "Profile" -> "profile"
    [] OTHER -> Lower(w)

\* s.toLowerCase()
toLowerCase(s) == Map(LowerWord, s)

\* s.includes(p)
Includes(s, p) == IndexOf(s, p) # 0

\* the number of digits that end s
RECURSIVE TrailingDigits(_)
TrailingDigits(s) ==
  IF s # <<>> /\ s[Len(s)] \in Digits
  THEN 1 + TrailingDigits(SubSeq(s, 1, Len(s) - 1))
  ELSE 0

\* name.replace(/#\d+:\d+$/, '')
StripSuffix(name) ==
  LET d2 == TrailingDigits(name)
      beforeColon == SubSeq(name, 1, Len(name) - d2 - 1)
      d1 == TrailingDigits(beforeColon)
      hash == Len(beforeColon) - d1
  IN IF /\ d2 >= 1 /\ Len(name) > d2 /\ name[Len(name) - d2] = ":"
        /\ d1 >= 1 /\ hash >= 1 /\ beforeColon[hash] = "#"
     THEN SubSeq(name, 1, hash - 1)
     ELSE name

\* the prefix literal of cleanPropertyName as the file stores it: three
\* characters and a space
ArrowPrefix == <<"U+00E2", "U+2020", "U+00AA", " ">>

cleanPropertyName(name) ==
  LET cleaned == Trim(StripSuffix(name))
  IN IF StartsWith(cleaned, ArrowPrefix)
     THEN SubSeq(cleaned, 3, Len(cleaned))
     ELSE cleaned

\* a SimplifiedNode: the fields the analyser reads
Node(type, name, componentProperties, children) ==
  [type |-> type, name |-> name,
   componentProperties |-> componentProperties, children |-> children]

\* one entry of node.componentProperties
ComponentProperty(name, type, value) ==
  [name |-> name, type |-> type, value |-> value]

\* the property names the pattern checks on node.name add
NamePatterns(node) ==
  LET nodeName == toLowerCase(node.name)
  IN IF node.name = <<>> THEN {}
     ELSE (IF Includes(nodeName, <<"title">>) THEN {<<"Title">>} ELSE {})
       \cup (IF Includes(nodeName, <<"image">>) THEN {<<"Image">>} ELSE {})
       \cup (IF Includes(nodeName, <<"trailing">>) /\ Includes(nodeName, <<"icon">>)
             THEN {<<"Trailing", " ", "icon", "s">>} ELSE {})
       \cup (IF Includes(nodeName, <<"icon", " ", "1">>) \/ nodeName = <<"icon", " ", "1">>
             THEN {<<"Icon", " ", "1">>} ELSE {})
       \cup (IF Includes(nodeName, <<"icon", " ", "2">>) \/ nodeName = <<"icon", " ", "2">>
             THEN {<<"Icon", " ", "2">>} ELSE {})
       \cup (IF Includes(nodeName, <<"profile">>)
             THEN {<<"Profile", " ", "icon">>} ELSE {})

\* the names the INSTANCE_SWAP entries of node.componentProperties add
SwapNames(node) ==
  {cleanPropertyName(node.componentProperties[i].name) :
     i \in {j \in 1..Len(node.componentProperties) :
              /\ node.componentProperties[j].type = "INSTANCE_SWAP"
              /\ node.componentProperties[j].name # <<>>}}

\* mutation: the node alone, without its children
analyzeVariantStructure_shallow(node) == NamePatterns(node) \cup SwapNames(node)

\* the set propertyUsage holds after analyzeVariantStructure(node, new Set())
RECURSIVE analyzeVariantStructure(_)
analyzeVariantStructure(node) ==
  NamePatterns(node) \cup SwapNames(node)
    \cup UNION {analyzeVariantStructure(node.children[i]) : i \in 1..Len(node.children)}

\* a ComponentPropertyDefinition; a field the code leaves out is Undefined
Definition(name, type, defaultValue, variantOptions, preferredValues) ==
  [name |-> name, type |-> type, defaultValue |-> defaultValue,
   variantOptions |-> variantOptions, preferredValues |-> preferredValues]

\* propertyMap as the sequence of its values in insertion order
IndexOfName(propertyMap, name) ==
  LET hits == {i \in 1..Len(propertyMap) : propertyMap[i].name = name}
  IN IF hits = {} THEN 0 ELSE CHOOSE i \in hits : TRUE

\* propertyMap.has(name)
Has(propertyMap, name) == IndexOfName(propertyMap, name) # 0

\* the keys of parseVariantName(variantName) in insertion order
RECURSIVE KeysInOrder(_, _)
KeysInOrder(parts, seen) ==
  IF parts = <<>> THEN <<>>
  ELSE LET kv == Map(Trim, Split(Head(parts), "="))
           key == kv[1]
           stored == key # <<>> /\ Len(kv) >= 2 /\ kv[2] # <<>>
       IN IF stored /\ key \notin seen
          THEN <<key>> \o KeysInOrder(Tail(parts), seen \cup {key})
          ELSE KeysInOrder(Tail(parts), seen)

\* Object.entries(parseVariantName(variantName))
Entries(variantName) ==
  LET variantProps == parseVariantName(variantName)
      keys == KeysInOrder(Map(Trim, Split(variantName, ",")), {})
  IN [i \in 1..Len(keys) |-> <<keys[i], variantProps[keys[i]]>>]

\* the body of Object.entries(variantProps).forEach in extractPropertyDefinitions
CollectEntry(propertyMap, entry) ==
  LET propName == entry[1]
      value == entry[2]
      created == IF Has(propertyMap, propName) THEN propertyMap
                 ELSE Append(propertyMap,
                             Definition(propName, "VARIANT", Str(<<>>), Arr(<<>>), Undefined))
      i == IndexOfName(created, propName)
      propDef == created[i]
      options == propDef.variantOptions.items
  IN IF value.t = "bool"
     THEN [created EXCEPT ![i] =
             [propDef EXCEPT !.type = "BOOLEAN",
                             !.defaultValue = IF Truthy(propDef.defaultValue)
                                              THEN propDef.defaultValue
                                              ELSE Bool(FALSE)]]
     ELSE [created EXCEPT ![i] =
             [propDef EXCEPT !.variantOptions =
                               IF \E j \in 1..Len(options) : options[j] = value.s
                               THEN propDef.variantOptions
                               ELSE Arr(Append(options, value.s)),
                             !.defaultValue = IF Truthy(propDef.defaultValue)
                                              THEN propDef.defaultValue
                                              ELSE value]]

RECURSIVE CollectEntries(_, _)
CollectEntries(propertyMap, entries) ==
  IF entries = <<>> THEN propertyMap
  ELSE CollectEntries(CollectEntry(propertyMap, Head(entries)), Tail(entries))

\* the first variants.forEach of extractPropertyDefinitions
RECURSIVE CollectVariants(_, _)
CollectVariants(propertyMap, variants) ==
  IF variants = <<>> THEN propertyMap
  ELSE CollectVariants(
         IF Head(variants).type = "COMPONENT"
         THEN CollectEntries(propertyMap, Entries(Head(variants).name))
         ELSE propertyMap,
         Tail(variants))

\* node.componentProperties.forEach of findInstanceSwapProperties (type
\* "INSTANCE_SWAP") and of findTextProperties (type "TEXT")
RECURSIVE CollectProperties(_, _, _)
CollectProperties(propertyMap, props, type) ==
  IF props = <<>> THEN propertyMap
  ELSE LET prop == Head(props)
           cleanName == cleanPropertyName(prop.name)
       IN CollectProperties(
            IF prop.type = type /\ ~Has(propertyMap, cleanName)
            THEN Append(propertyMap,
                        Definition(cleanName, type, prop.value,
                                   Undefined,
                                   IF type = "INSTANCE_SWAP" THEN Arr(<<>>) ELSE Undefined))
            ELSE propertyMap,
            Tail(props), type)

\* the nodes of the trees in the order the finders visit them: a node, then
\* its children from first to last, each with all that is below it
RECURSIVE VisitOrder(_)
VisitOrder(nodes) ==
  IF nodes = <<>> THEN <<>>
  ELSE <<Head(nodes)>> \o VisitOrder(Head(nodes).children \o Tail(nodes))

\* findInstanceSwapProperties (type "INSTANCE_SWAP", which reads the
\* properties of INSTANCE nodes only) and findTextProperties (type "TEXT")
\* over the nodes in visiting order
RECURSIVE FindProperties(_, _, _)
FindProperties(nodes, propertyMap, type) ==
  IF nodes = <<>> THEN propertyMap
  ELSE LET node == Head(nodes)
       IN FindProperties(
            Tail(nodes),
            IF type = "TEXT" \/ node.type = "INSTANCE"
            THEN CollectProperties(propertyMap, node.componentProperties, type)
            ELSE propertyMap,
            type)

findInstanceSwapProperties(node, propertyMap) ==
  FindProperties(VisitOrder(<<node>>), propertyMap, "INSTANCE_SWAP")

findTextProperties(node, propertyMap) ==
  FindProperties(VisitOrder(<<node>>), propertyMap, "TEXT")

\* variants.forEach(variant => find(variant, propertyMap)) for either finder
RECURSIVE FindInEach(_, _, _)
FindInEach(variants, propertyMap, type) ==
  IF variants = <<>> THEN propertyMap
  ELSE FindInEach(Tail(variants),
                  IF type = "INSTANCE_SWAP"
                  THEN findInstanceSwapProperties(Head(variants), propertyMap)
                  ELSE findTextProperties(Head(variants), propertyMap),
                  type)

\* Array.from(propertyMap.values())
extractPropertyDefinitions(componentSetNode, variants) ==
  FindInEach(variants,
             FindInEach(variants, CollectVariants(<<>>, variants), "INSTANCE_SWAP"),
             "TEXT")

\* one inferred rule; a field the code leaves out is Undefined
Rule(property, visibleWhen, childProperties) ==
  [property |-> property, visibleWhen |-> visibleWhen,
   childProperties |-> childProperties]

\* one entry of visibleWhen
Condition(property, equals) == [property |-> property, equals |-> equals]

LayoutName == <<"Layout">>
TitleName == <<"Title">>
ImageName == <<"Image">>
TrailingIconsName == <<"Trailing", " ", "icon", "s">>
Icon1Name == <<"Icon", " ", "1">>
Icon2Name == <<"Icon", " ", "2">>

\* variant.properties['Layout']
LayoutValueOf(variant) ==
  IF LayoutName \in DOMAIN variant.properties
  THEN variant.properties[LayoutName] ELSE Undefined

\* propertyLayoutUsage.get(propName) after the variantNodes.forEach
LayoutsUsed(propName, variants, variantNodes) ==
  {LayoutValueOf(variants[i]).s :
     i \in {j \in 1..Len(variantNodes) :
              /\ j <= Len(variants)
              /\ Truthy(LayoutValueOf(variants[j]))
              /\ LayoutValueOf(variants[j]).t = "str"
              /\ propName \in analyzeVariantStructure(variantNodes[j])}}

defaultOnlyProps == {TitleName, ImageName, TrailingIconsName, Icon1Name, Icon2Name}

\* propertyLayoutUsage.forEach: the rules of the tracked names, in map order
RECURSIVE UsageRules(_, _, _)
UsageRules(tracked, variants, variantNodes) ==
  IF tracked = <<>> THEN <<>>
  ELSE LET propName == Head(tracked)
           layoutsUsed == LayoutsUsed(propName, variants, variantNodes)
           rest == UsageRules(Tail(tracked), variants, variantNodes)
       IN IF Cardinality(layoutsUsed) = 1
          THEN <<Rule(propName,
                      Arr(<<Condition(LayoutName, Str(CHOOSE l \in layoutsUsed : TRUE))>>),
                      Undefined)>> \o rest
          ELSE IF layoutsUsed = {} /\ propName \in defaultOnlyProps
          THEN <<Rule(propName,
                      Arr(<<Condition(LayoutName, Str(<<"Default">>))>>),
                      Undefined)>> \o rest
          ELSE rest

\* rules.find(r => r.property === property) as an index, 0 when there is none
FindRule(rules, property) ==
  LET hits == {i \in 1..Len(rules) : rules[i].property = property}
  IN IF hits = {} THEN 0 ELSE CHOOSE i \in hits : \A j \in hits : i <= j

\* the first parentChildMap.forEach, for one entry
AddChildProperties(rules, parent, children) ==
  LET i == FindRule(rules, parent)
  IN IF i # 0 THEN [rules EXCEPT ![i].childProperties = Arr(children)]
     ELSE Append(rules, Rule(parent, Undefined, Arr(children)))

\* the body of children.forEach in the second parentChildMap.forEach
AddChildRule(rules, parentRule, parent, child) ==
  LET i == FindRule(rules, child)
      conditions == Arr(Append(parentRule.visibleWhen.items,
                               Condition(parent, Bool(TRUE))))
  IN IF i = 0 THEN Append(rules, Rule(child, conditions, Undefined))
     ELSE IF ~Truthy(rules[i].visibleWhen)
     THEN [rules EXCEPT ![i].visibleWhen = conditions]
     ELSE rules

RECURSIVE AddChildRules(_, _, _, _)
AddChildRules(rules, parentRule, parent, children) ==
  IF children = <<>> THEN rules
  ELSE AddChildRules(AddChildRule(rules, parentRule, parent, Head(children)),
                     parentRule, parent, Tail(children))

\* the second parentChildMap.forEach, for one entry
AddChildVisibility(rules, parent, children) ==
  LET i == FindRule(rules, parent)
  IN IF i # 0 /\ Truthy(rules[i].visibleWhen)
     THEN AddChildRules(rules, rules[i], parent, children)
     ELSE rules

\* the names of the definitions whose type is not 'VARIANT', in order
RECURSIVE NonVariantNames(_)
NonVariantNames(propertyDefinitions) ==
  IF propertyDefinitions = <<>> THEN <<>>
  ELSE (IF Head(propertyDefinitions).type # "VARIANT"
        THEN <<Head(propertyDefinitions).name>> ELSE <<>>)
       \o NonVariantNames(Tail(propertyDefinitions))

inferPropertyRules(variants, propertyDefinitions, variantNodes) ==
  LET children == <<Icon1Name, Icon2Name>>
      byUsage == UsageRules(NonVariantNames(propertyDefinitions), variants, variantNodes)
      grouped == AddChildProperties(byUsage, TrailingIconsName, children)
  IN AddChildVisibility(grouped, TrailingIconsName, children)

\* the COMPONENT children of the set, in order
RECURSIVE ComponentsOf(_)
ComponentsOf(children) ==
  IF children = <<>> THEN <<>>
  ELSE (IF Head(children).type = "COMPONENT" THEN <<Head(children)>> ELSE <<>>)
       \o ComponentsOf(Tail(children))

\* fullProps of one variant: the parsed name and the defaults of the
\* BOOLEAN definitions it does not mention
FullProps(variant, propertyDefinitions) ==
  LET parsedProps == parseVariantName(variant.name)
      missing == {i \in 1..Len(propertyDefinitions) :
                    /\ propertyDefinitions[i].type = "BOOLEAN"
                    /\ propertyDefinitions[i].name \notin DOMAIN parsedProps}
  IN [k \in DOMAIN parsedProps \cup {propertyDefinitions[i].name : i \in missing} |->
        IF k \in DOMAIN parsedProps THEN parsedProps[k]
        ELSE propertyDefinitions[IndexOfName(propertyDefinitions, k)].defaultValue]

enhanceComponentSetData(componentSetNode) ==
  IF componentSetNode.type # "COMPONENT_SET" THEN Null
  ELSE LET variants == ComponentsOf(componentSetNode.children)
           propertyDefinitions == extractPropertyDefinitions(componentSetNode, variants)
           variantData == [i \in 1..Len(variants) |->
                             [name |-> variants[i].name,
                              properties |-> FullProps(variants[i], propertyDefinitions),
                              node |-> variants[i]]]
       IN [t |-> "enhanced",
           propertyDefinitions |-> propertyDefinitions,
           variants |-> variantData,
           propertyRules |-> inferPropertyRules(variantData, propertyDefinitions, variants),
           children |-> componentSetNode.children]

----------------------------------------------------------------------------
(* Bounded component sets *)

MaxVariants == 2

DefaultName == <<"Layout", "=", "Default">>
CompactName == <<"Layout", "=", "Compact">>

\* the names of the COMPONENT children
ComponentNames ==
  {DefaultName, CompactName,
   DefaultName \o <<",", " ">> \o TrailingIconsName \o <<"=", "true">>,
   CompactName \o <<",", " ">> \o TrailingIconsName \o <<"=", "false">>,
   <<"Size", "=", "Large">>}

SwapIcon1 ==
  ComponentProperty(Icon1Name \o <<"#", "1", "2", ":", "3">>, "INSTANCE_SWAP",
                    Str(<<"1", ":", "5">>))
SwapIcon2 ==
  ComponentProperty(Icon2Name \o <<"#", "1", "2", ":", "4">>, "INSTANCE_SWAP",
                    Str(<<"1", ":", "6">>))

\* what a variant holds under its root
VariantChildren ==
  {<<>>,
   <<Node("TEXT", TitleName,
          <<ComponentProperty(TitleName \o <<"#", "7", ":", "0">>, "TEXT", Str(<<"Inbox">>))>>,
          <<>>)>>,
   <<Node("FRAME", <<"Content">>,
          <<>>, <<Node("TEXT", <<"Sub", "title">>, <<>>, <<>>)>>)>>,
   <<Node("TEXT", <<"Label">>,
          <<ComponentProperty(TitleName \o <<"#", "7", ":", "0">>, "TEXT", Str(<<"Inbox">>))>>,
          <<>>)>>,
   <<Node("INSTANCE", <<"Actions">>, <<SwapIcon1, SwapIcon2>>, <<>>)>>,
   <<Node("FRAME", TrailingIconsName, <<>>,
          <<Node("INSTANCE", Icon1Name, <<SwapIcon1>>, <<>>),
            Node("INSTANCE", Icon2Name, <<SwapIcon2>>, <<>>)>>)>>,
   <<Node("INSTANCE", <<"Avatar">>,
          <<ComponentProperty(<<"Profile", " ", "icon", "#", "9", ":", "1">>,
                              "INSTANCE_SWAP", Str(<<"1", ":", "7">>))>>,
          <<>>),
     Node("INSTANCE", <<"Logo">>,
          <<ComponentProperty(<<"U+21AA", " ", "Brand", "#", "9", ":", "2">>,
                              "INSTANCE_SWAP", Str(<<"1", ":", "8">>))>>,
          <<>>)>>}

\* the children of a component set: variants, and a node that is no variant
SetChildren ==
  {Node("COMPONENT", name, <<>>, children) :
     name \in ComponentNames, children \in VariantChildren}
  \cup {Node("TEXT", TitleName, <<>>, <<>>)}

\* the kinds of node handed to the analyser: frames, which it turns down
\* whatever they hold, are tried with one child only
SetTypes(n) == IF n = 1 THEN {"COMPONENT_SET", "FRAME"} ELSE {"COMPONENT_SET"}

\* nodes of up to MaxVariants children, before the call
InitAnalyze ==
  /\ IdlePure
  /\ IdleStore
  /\ IdleCache
  /\ IdleResolve
  /\ \E n \in 1..MaxVariants :
       \E children \in [1..n -> SetChildren], type \in SetTypes(n) :
         componentSet = Node(type, <<"Top", " ", "App", " ", "Bar">>, <<>>, children)
  /\ enhanced = Undefined

\* one call of enhanceComponentSetData on the node
EnhanceComponentSetData ==
  /\ enhanced = Undefined
  /\ enhanced' = enhanceComponentSetData(componentSet)
  /\ UNCHANGED componentSet

NextAnalyze ==
  EnhanceComponentSetData /\ UNCHANGED <<pureVars, storeVars, cacheVars, resolveVars>>

SpecAnalyze == InitAnalyze /\ [][NextAnalyze]_vars

----------------------------------------------------------------------------
(* Properties of the component-set analyser *)

\* enhanceComponentSetData has returned the enhanced set
Enhanced == enhanced # Undefined /\ enhanced # Null

\* the node and everything below it
RECURSIVE Descendants(_)
Descendants(node) ==
  {node} \cup UNION {Descendants(node.children[i]) : i \in 1..Len(node.children)}

\* the value the name of node c gives Layout, Undefined when it gives none
LayoutOf(c) ==
  LET properties == parseVariantName(c.name)
  IN IF LayoutName \in DOMAIN properties THEN properties[LayoutName] ELSE Undefined

\* the COMPONENT children of the set whose name gives Layout a string, each
\* with that string
LaidOut ==
  {<<c, LayoutOf(c).s>> :
     c \in {d \in {componentSet.children[i] : i \in 1..Len(componentSet.children)} :
              d.type = "COMPONENT" /\ LayoutOf(d).t = "str"}}

\* property p is structurally present in the tree of c: a node of the tree
\* matches a name pattern of p or binds the INSTANCE_SWAP property p
Shows(c, p) == \E n \in Descendants(c) : p \in NamePatterns(n) \cup SwapNames(n)

\* the Layout values under which property p is structurally present
PresentUnder(p, laidOut) == {v[2] : v \in {w \in laidOut : Shows(w[1], p)}}

\* the definitions of the enhanced set that are not of type VARIANT
NonVariantDefinitions ==
  {enhanced.propertyDefinitions[i].name :
     i \in {j \in 1..Len(enhanced.propertyDefinitions) :
              enhanced.propertyDefinitions[j].type # "VARIANT"}}

\* the rules of the enhanced set for property p
RulesFor(p) ==
  {i \in 1..Len(enhanced.propertyRules) : enhanced.propertyRules[i].property = p}

\* C19: a property that is not a VARIANT and is structurally present under
\* exactly one Layout value L has one rule, and the rule requires
\* Layout = L and nothing else
C19_VisibleUnderOneLayout ==
  Enhanced =>
    LET laidOut == LaidOut
    IN \A p \in NonVariantDefinitions :
         LET present == PresentUnder(p, laidOut)
         IN Cardinality(present) = 1 =>
              /\ Cardinality(RulesFor(p)) = 1
              /\ \A i \in RulesFor(p) : \A l \in present :
                   enhanced.propertyRules[i].visibleWhen
                     = Arr(<<Condition(LayoutName, Str(l))>>)

\* the set has a Default and a Compact variant and a Title text property
\* that is present under Compact only, and the rule for Title requires Compact
C19_Witness ==
  /\ Enhanced
  /\ \E v \in LaidOut : v[2] = <<"Default">>
  /\ TitleName \in NonVariantDefinitions
  /\ PresentUnder(TitleName, LaidOut) = {<<"Compact">>}
  /\ \E i \in RulesFor(TitleName) :
       enhanced.propertyRules[i].visibleWhen
         = Arr(<<Condition(LayoutName, Str(<<"Compact">>))>>)

\* the set defines property p with the given type
Defines(p, type) ==
  \E i \in 1..Len(enhanced.propertyDefinitions) :
    /\ enhanced.propertyDefinitions[i].name = p
    /\ enhanced.propertyDefinitions[i].type = type

\* the conditions of rule i, none when it has no visibleWhen
ConditionsOf(i) ==
  IF Truthy(enhanced.propertyRules[i].visibleWhen)
  THEN {enhanced.propertyRules[i].visibleWhen.items[k] :
          k \in 1..Len(enhanced.propertyRules[i].visibleWhen.items)}
  ELSE {}

\* C20: when the variants expose the instance-swap properties Icon 1 and
\* Icon 2 and the boolean Trailing icons, Trailing icons has a rule with
\* childProperties [Icon 1, Icon 2], and Icon 1 and Icon 2 each have a rule
\* that requires Trailing icons = true together with every condition of the
\* rule of Trailing icons
C20_ChildrenRequireParent ==
  (/\ Enhanced
   /\ Defines(Icon1Name, "INSTANCE_SWAP")
   /\ Defines(Icon2Name, "INSTANCE_SWAP")
   /\ Defines(TrailingIconsName, "BOOLEAN")) =>
    /\ \E i \in RulesFor(TrailingIconsName) :
         enhanced.propertyRules[i].childProperties = Arr(<<Icon1Name, Icon2Name>>)
    /\ \A child \in {Icon1Name, Icon2Name} :
         \E i \in RulesFor(child) :
           /\ Condition(TrailingIconsName, Bool(TRUE)) \in ConditionsOf(i)
           /\ \A j \in RulesFor(TrailingIconsName) : ConditionsOf(j) \subseteq ConditionsOf(i)

----------------------------------------------------------------------------
(* Properties of the fill bindings of the visuals extractor *)

\* the fills of the node of the last extraction
ExtractedFills == IF result = Null THEN {} ELSE 1..Len(result.raw.fills)

\* boundVariables.fills[i] of that node, Null when the slot is empty
NodeLevelBinding(i) ==
  IF i <= Len(result.raw.boundFills) THEN result.raw.boundFills[i] ELSE Null

\* boundVariables.color of its fill i, Null when the fill is not SOLID
FillLevelBinding(i) ==
  IF result.raw.fills[i].type = "SOLID" THEN result.raw.fills[i].boundColor ELSE Null

\* a binding that is there and has an identifier
HasId(binding) == binding # Null /\ binding.id # <<>>

\* the item emitted for fill i: what node.fills.map gave, before interning
EmittedFill(i) ==
  interned[CHOOSE k \in 1..Len(interned) :
             interned[k].node = visited /\ interned[k].prefix = "fill"].value.items[i]

C21_WitnessNodeLevel ==
  \E i \in ExtractedFills :
    /\ HasId(NodeLevelBinding(i))
    /\ HasId(FillLevelBinding(i))
    /\ EmittedFill(i).t = "annotated"
    /\ resolveCalls[i].binding = NodeLevelBinding(i)

----------------------------------------------------------------------------
(* Properties of the text-style pass *)

\* the first style of the table under identifier id, Null when there is none
StyleUnder(id) ==
  LET hits == {i \in 1..Len(cachedTextStyles) : cachedTextStyles[i].styleId = id}
  IN IF hits = {} THEN Null
     ELSE Str(cachedTextStyles[CHOOSE i \in hits : \A j \in hits : i <= j].name)

\* the identifier with the prefix S: taken off when it has it, put on when not
OtherForm(id) ==
  IF StartsWith(id, <<"S", ":">>) THEN SubSeq(id, 3, Len(id)) ELSE <<"S", ":">> \o id

\* the name the identifier lookup gives: the exact identifier first
NameById(id) == IF StyleUnder(id) # Null THEN StyleUnder(id) ELSE StyleUnder(OtherForm(id))

\* the name property matching gives for a store entry
NameByProperties(entry) ==
  resolveTextStyleByProperties(
    [ fontFamily |-> Get(entry, "fontFamily"), fontSize |-> Get(entry, "fontSize"),
      fontWeight |-> Get(entry, "fontWeight"), lineHeight |-> Get(entry, "lineHeight") ],
    cachedTextStyles)

\* the keys of the store of design d whose entry is an object with a textStyleId
TextStyleKeys(d) ==
  IF ~HasStore(d) THEN {}
  ELSE {k \in DOMAIN StoreOf(d) :
          /\ StoreOf(d)[k].t = "object"
          /\ Truthy(Get(StoreOf(d)[k], "textStyleId"))}

\* C22: an object entry of the store with a textStyleId is replaced under
\* its key by the name the identifier lookup gives (exact, then with the S:
\* prefix put on or taken off); when the lookup gives none and the entry has
\* a fontFamily, by the name property matching gives; and it is left as it
\* was when neither gives a name
C22_TextStyleCollapse ==
  \A c \in 1..Len(calls) :
    ~calls[c].raised =>
      \A k \in TextStyleKeys(calls[c].before) :
        LET entry == StoreOf(calls[c].before)[k]
            after == StoreOf(memory[calls[c].output])[k]
            byId == NameById(Get(entry, "textStyleId").s)
        IN IF byId # Null THEN after = byId
           ELSE IF In("fontFamily", entry) /\ NameByProperties(entry) # Null
           THEN after = NameByProperties(entry)
           ELSE after = entry

\* a call met an identifier found only with its prefix taken off
C22_Witness ==
  \E c \in 1..Len(calls) :
    /\ ~calls[c].raised
    /\ \E k \in TextStyleKeys(calls[c].before) :
         LET entry == StoreOf(calls[c].before)[k]
             id == Get(entry, "textStyleId").s
         IN /\ StyleUnder(id) = Null
            /\ StartsWith(id, <<"S", ":">>)
            /\ StyleUnder(OtherForm(id)) # Null
            /\ StoreOf(memory[calls[c].output])[k] = StyleUnder(OtherForm(id))

\* a call met an entry named by its properties only
C22_ByProperties ==
  \E c \in 1..Len(calls) :
    /\ ~calls[c].raised
    /\ \E k \in TextStyleKeys(calls[c].before) :
         LET entry == StoreOf(calls[c].before)[k]
         IN /\ NameById(Get(entry, "textStyleId").s) = Null
            /\ StoreOf(memory[calls[c].output])[k] = NameByProperties(entry)
            /\ NameByProperties(entry) # Null

\* a call met an entry without a fontFamily that the identifier lookup does
\* not name while property matching would
C22_LeftAlone ==
  \E c \in 1..Len(calls) :
    /\ ~calls[c].raised
    /\ \E k \in TextStyleKeys(calls[c].before) :
         LET entry == StoreOf(calls[c].before)[k]
         IN /\ NameById(Get(entry, "textStyleId").s) = Null
            /\ ~In("fontFamily", entry)
            /\ NameByProperties(entry) # Null
            /\ StoreOf(memory[calls[c].output])[k] = entry

----------------------------------------------------------------------------
(* resolveTextStyleByProperties called on its own: every query over every
   small table of text styles *)

\* the longest table of text styles drawn
MaxStyles == 2

\* the properties argument: each of the three may be absent; a family may be
\* the empty string
QueryFamilies == {Undefined, Str(<<>>), Str(<<"I", "n">>), Str(<<"R", "o">>)}
QuerySizes == {Undefined, Num(14), Num(16)}
QueryWeights == {Undefined, Num(400), Num(700)}
Queries ==
  { [fontFamily |-> f, fontSize |-> z, fontWeight |-> w, lineHeight |-> Undefined] :
      f \in QueryFamilies, z \in QuerySizes, w \in QueryWeights }

\* entries of text-styles.json: a name of their own for each combination of
\* properties, the family optional as TextStyleMapping declares it
StyleFamilies == {Undefined, Str(<<"i", " ", "N">>), Str(<<"R", "o">>)}
FamilyToken(f) == IF f = Undefined THEN "any" ELSE IF f.s = <<"R", "o">> THEN "ro" ELSE "in"
NamedStyle(f, z, w) ==
  [ styleId |-> <<"S", ":", "1">>,
    name |-> << "MaterialTheme.typography.", FamilyToken(f),
                IF z = 14 THEN "14" ELSE "16", IF w = 400 THEN "400" ELSE "700" >>,
    properties |-> [fontFamily |-> f, fontSize |-> Num(z), fontWeight |-> Num(w)] ]
NamedStyles == {NamedStyle(f, z, w) : f \in StyleFamilies, z \in {14, 16}, w \in {400, 700}}
StyleTables == UNION {[1..n -> NamedStyles] : n \in 0..MaxStyles}

InitMatch ==
  /\ fn = "none"
  /\ ret = Null
  /\ \E properties \in Queries, textStyles \in StyleTables :
       arg = [properties |-> properties, textStyles |-> textStyles]
  /\ IdleStore
  /\ IdleCache
  /\ IdleResolve
  /\ IdleAnalyze

CallResolveTextStyleByProperties ==
  /\ fn = "none"
  /\ fn' = "resolveTextStyleByProperties"
  /\ ret' = resolveTextStyleByProperties(arg.properties, arg.textStyles)
  /\ UNCHANGED arg

NextMatch ==
  CallResolveTextStyleByProperties
    /\ UNCHANGED <<storeVars, cacheVars, resolveVars, analyzeVars>>

SpecMatch == InitMatch /\ [][NextMatch]_vars

(* Properties of matching by properties *)

Matched == fn = "resolveTextStyleByProperties"

\* the styles of the table carrying the returned name
StylesNamed == {i \in 1..Len(arg.textStyles) : ret # Null /\ arg.textStyles[i].name = ret.s}

SameFamily(a, b) ==
  a.t = "str" /\ b.t = "str" /\ NormalizeFamily(a.s) = NormalizeFamily(b.s)

\* style i has the queried family, the queried size and the queried weight
AgreesOnAllThree(i) ==
  LET p == arg.textStyles[i].properties
  IN /\ SameFamily(p.fontFamily, arg.properties.fontFamily)
     /\ p.fontSize = arg.properties.fontSize
     /\ p.fontWeight = arg.properties.fontWeight

\* style i has every property the query gives; a family is compared only
\* when the query and the style both have a non-empty one
AgreesOnGiven(i) ==
  LET p == arg.textStyles[i].properties
      q == arg.properties
  IN /\ (Truthy(q.fontFamily) /\ Truthy(p.fontFamily) /\ NormalizeFamily(q.fontFamily.s) # <<>>
           /\ NormalizeFamily(p.fontFamily.s) # <<>>)
          => SameFamily(p.fontFamily, q.fontFamily)
     /\ q.fontSize # Undefined => p.fontSize = q.fontSize
     /\ q.fontWeight # Undefined => p.fontWeight = q.fontWeight

\* C23 as stated: a returned name belongs to a style with the queried
\* family (case and whitespace ignored), size and weight, and null is
\* returned when no style of the table agrees on all three
C23_MatchAgreesOnAllThree ==
  Matched =>
    /\ ret # Null => \E i \in StylesNamed : AgreesOnAllThree(i)
    /\ (\A i \in 1..Len(arg.textStyles) : ~AgreesOnAllThree(i)) => ret = Null

\* C23: the name returned is that of the first style of the table that has
\* every property the query gives (family compared ignoring case and
\* whitespace, and only when query and style both have one); null is
\* returned exactly when the table has no such style
C23_MatchAgreesOnGiven ==
  Matched =>
    LET agreeing == {i \in 1..Len(arg.textStyles) : AgreesOnGiven(i)}
    IN IF agreeing = {} THEN ret = Null
       ELSE /\ ret # Null
            /\ \A i \in agreeing : (\A j \in agreeing : i <= j) => i \in StylesNamed

\* a query without a size got the name of a style that has its family in
\* another case and spacing and its weight
C23_Witness ==
  /\ Matched
  /\ arg.properties.fontSize = Undefined
  /\ arg.properties.fontFamily = Str(<<"I", "n">>)
  /\ arg.properties.fontWeight # Undefined
  /\ \E i \in StylesNamed :
       /\ arg.textStyles[i].properties.fontFamily = Str(<<"i", " ", "N">>)
       /\ arg.textStyles[i].properties.fontWeight = arg.properties.fontWeight
  /\ \E i \in 1..Len(arg.textStyles) : ~AgreesOnGiven(i)

----------------------------------------------------------------------------
(* Further properties of the component-set analyser *)

\* the Layout values of the conditions of rule i
LayoutsRequired(i) ==
  {c.equals : c \in {k \in ConditionsOf(i) : k.property = LayoutName}}

\* C24: a property that is not a VARIANT and is structurally present under
\* no Layout value has, when it is one of the known structurally-dependent
\* properties, a rule whose condition names a Layout value that occurs among
\* the variants of the set, and has no visibility rule when it is not one
\* of them
C24_FallbackNamesOccurringLayout ==
  Enhanced =>
    LET laidOut == LaidOut
        occurring == {Str(v[2]) : v \in laidOut}
    IN \A p \in NonVariantDefinitions :
         PresentUnder(p, laidOut) = {} =>
           IF p \in defaultOnlyProps
           THEN \E i \in RulesFor(p) :
                  LayoutsRequired(i) # {} /\ LayoutsRequired(i) \subseteq occurring
           ELSE \A i \in RulesFor(p) : ConditionsOf(i) = {}

\* the COMPONENT children of the analysed set, in order
VariantsOfSet == ComponentsOf(componentSet.children)

\* the values the names of the variants give key k, in variant order
ValuesOf(k) ==
  LET having == {i \in 1..Len(VariantsOfSet) : k \in DOMAIN parseVariantName(VariantsOfSet[i].name)}
      RECURSIVE From(_)
      From(i) == IF i > Len(VariantsOfSet) THEN <<>>
                 ELSE (IF i \in having THEN <<parseVariantName(VariantsOfSet[i].name)[k]>> ELSE <<>>)
                      \o From(i + 1)
  IN From(1)

\* the position at which value v first appears in values
FirstAt(values, v) == Min({i \in 1..Len(values) : values[i] = v})

\* options lists the distinct strings of values in the order they first appear
InFirstAppearanceOrder(options, values) ==
  /\ {options[i] : i \in 1..Len(options)}
       = {values[i].s : i \in {j \in 1..Len(values) : values[j].t = "str"}}
  /\ \A i, j \in 1..Len(options) :
       i < j => FirstAt(values, Str(options[i])) < FirstAt(values, Str(options[j]))

\* the name of a component property without its #n:n suffix and without a
\* leading arrow
Stripped(name) ==
  LET s == Trim(StripSuffix(name))
  IN IF Len(s) >= 2 /\ s[1] = "U+21AA" /\ s[2] = " " THEN SubSeq(s, 3, Len(s)) ELSE s

\* the stripped names of the INSTANCE_SWAP properties of the INSTANCE nodes
\* and of the TEXT properties of all nodes below the variants
ExposedNames ==
  UNION { {Stripped(n.componentProperties[i].name) :
             i \in {j \in 1..Len(n.componentProperties) :
                      \/ n.componentProperties[j].type = "TEXT"
                      \/ /\ n.componentProperties[j].type = "INSTANCE_SWAP"
                         /\ n.type = "INSTANCE"}} :
          n \in UNION {Descendants(VariantsOfSet[v]) : v \in 1..Len(VariantsOfSet)} }

DefinitionsNamed(p) ==
  {i \in 1..Len(enhanced.propertyDefinitions) : enhanced.propertyDefinitions[i].name = p}

\* C25: every key of a parsed variant name has exactly one definition,
\* BOOLEAN with a boolean default when its values are true/false, otherwise
\* VARIANT with the distinct string values in first-appearance order as
\* options and the first value seen as default; the INSTANCE_SWAP and TEXT
\* properties below the variants are defined once under their name without
\* the #n:n suffix and the leading arrow, and nothing else is defined
C25_DefinitionsInferred ==
  Enhanced =>
    LET keys == UNION {DOMAIN parseVariantName(VariantsOfSet[i].name) : i \in 1..Len(VariantsOfSet)}
        exposed == ExposedNames
    IN /\ \A k \in keys :
            LET values == ValuesOf(k)
            IN /\ Cardinality(DefinitionsNamed(k)) = 1
               /\ \A i \in DefinitionsNamed(k) :
                    LET def == enhanced.propertyDefinitions[i]
                    IN IF \A j \in 1..Len(values) : values[j].t = "bool"
                       THEN def.type = "BOOLEAN" /\ def.defaultValue.t = "bool"
                       ELSE /\ def.type = "VARIANT"
                            /\ InFirstAppearanceOrder(def.variantOptions.items, values)
                            /\ def.defaultValue = values[1]
       /\ \A p \in exposed : Cardinality(DefinitionsNamed(p)) = 1
       /\ \A i \in 1..Len(enhanced.propertyDefinitions) :
            enhanced.propertyDefinitions[i].name \in keys \cup exposed

----------------------------------------------------------------------------
(* getVariableMappings called concurrently over unchanging sources *)

\* the most calls suspended at their await at a time
MaxRacing == 2

\* the sources: the first two candidate files present or not, the URL set or
\* not, the endpoint answering or failing
InitRace ==
  /\ IdlePure
  /\ IdleStore
  /\ IdleResolve
  /\ IdleAnalyze
  /\ \E cwd \in {"missing", "ok"}, home \in {"missing", "ok"},
        url \in BOOLEAN, kind \in {"array", "notok"} :
       /\ ~url => kind = "array"
       /\ StartSources([p \in {"cwd", "home", "install"} |->
                          IF p = "cwd" THEN cwd ELSE IF p = "home" THEN home ELSE "missing"],
                       url, kind)

\* variable-mappings.ts
NextRace ==
  \/ Tick /\ UNCHANGED <<pureVars, storeVars, resolveVars, analyzeVars>>
  \/ GetVariableMappingsStartUpTo(MaxRacing)
       /\ UNCHANGED <<pureVars, storeVars, resolveVars, analyzeVars>>
  \/ GetVariableMappingsFinish /\ UNCHANGED <<pureVars, storeVars, resolveVars, analyzeVars>>

SpecRace == InitRace /\ [][NextRace]_vars

\* the auto-refresh version
NextRaceRefresh ==
  \/ Tick /\ UNCHANGED <<pureVars, storeVars, resolveVars, analyzeVars>>
  \/ RefreshStartUpTo(MaxRacing) /\ UNCHANGED <<pureVars, storeVars, resolveVars, analyzeVars>>
  \/ RefreshFinish /\ UNCHANGED <<pureVars, storeVars, resolveVars, analyzeVars>>

SpecRaceRefresh == InitRace /\ [][NextRaceRefresh]_vars

(* Properties of concurrent calls *)

\* what the endpoint serves to a call, nothing when the URL is not set or
\* the fetch fails
Served ==
  IF remote.url /\ remote.kind \in {"array", "wrapped"} THEN RemoteContent ELSE <<>>

\* what one call on its own returns over the sources as they are
OnItsOwn == Named(Served \o FirstUsable)

\* C26: over unchanging sources, however the calls interleave at their
\* await, every call returns the mappings a single call on its own returns,
\* and once no call is suspended the cache holds exactly those mappings
C26_RacingHarmless ==
  /\ \A c \in 1..Len(history) : Named(history[c].result) = OnItsOwn
  /\ (inflight = <<>> /\ history # <<>>) =>
       /\ cachedMappings # Null
       /\ Named(cachedMappings.items) = OnItsOwn

\* two calls were suspended together, both fetched, and a third was served
\* from the cache they left
C26_Witness ==
  /\ inflight = <<>>
  /\ Len(history) = 3
  /\ remote.url /\ remote.kind = "array"
  /\ files["cwd"].state = "ok"
  /\ history[1].overlapped /\ history[1].fetched
  /\ history[2].overlapped /\ history[2].fetched
  /\ history[1].start < history[2].start
  /\ ~history[3].checkedLocal
  /\ OnItsOwn # <<>>

----------------------------------------------------------------------------
(* Properties of the local check of the auto-refresh version *)

\* C27: a call that starts more than FILE_CHECK_INTERVAL after the previous
\* local check returns the mappings the local files hold now, whatever the
\* cache held; so does every call that had to wait for the remote fetch
C27_BoundedStaleness ==
  [][ Len(history') = Len(history) + 1 =>
        ((\/ Len(inflight') < Len(inflight)
          \/ now - fileWatchTimestamp > FILE_CHECK_INTERVAL) =>
           /\ history'[Len(history')].checkedLocal
           /\ Named(LocalPart(history'[Len(history')].result)) = Named(FirstUsable)) ]_vars

\* the working directory's file was changed after the first call, and a call
\* more than FILE_CHECK_INTERVAL after it, without a remote fetch, returned
\* the new mappings
C27_Witness ==
  /\ edits = 1
  /\ files["cwd"] = FileAt(2, files["cwd"].mtime)
  /\ Len(history) >= 2
  /\ Named(LocalPart(history[1].result)) = Named(FileContent("cwd", 1))
  /\ history[1].end < files["cwd"].mtime
  /\ \E j \in 2..Len(history) :
       /\ ~history[j].fetched
       /\ history[j].start - history[j - 1].start > FILE_CHECK_INTERVAL
       /\ \A i \in 1..(j - 1) : Named(LocalPart(history[i].result)) = Named(FileContent("cwd", 1))
       /\ Named(LocalPart(history[j].result)) = Named(FileContent("cwd", 2))

\* the names the enhanced set defines
DefinedNames ==
  {enhanced.propertyDefinitions[i].name : i \in 1..Len(enhanced.propertyDefinitions)}

\* the names rule i lists as childProperties, none when it has no list
ChildrenOf(i) ==
  IF Truthy(enhanced.propertyRules[i].childProperties)
  THEN {enhanced.propertyRules[i].childProperties.items[k] :
          k \in 1..Len(enhanced.propertyRules[i].childProperties.items)}
  ELSE {}

\* C28: the property of every rule, every entry of its childProperties and
\* the property of every condition of its visibleWhen is the name of a
\* definition of the analysed set
C28_RulesReferToDefinitions ==
  Enhanced =>
    \A i \in 1..Len(enhanced.propertyRules) :
      /\ enhanced.propertyRules[i].property \in DefinedNames
      /\ ChildrenOf(i) \subseteq DefinedNames
      /\ {c.property : c \in ConditionsOf(i)} \subseteq DefinedNames

----------------------------------------------------------------------------
(* Properties of the frame of the post-resolution pass *)

\* some object of the tree carries a `variable` the token file resolves
RECURSIVE HoldsResolvable(_)
HoldsResolvable(data) ==
  CASE data.t = "array" -> \E i \in 1..Len(data.items) : HoldsResolvable(data.items[i])
    [] data.t = "object" ->
         \/ /\ In("variable", data)
            /\ data.fields["variable"].t = "str"
            /\ NameFor(data.fields["variable"].s) # Null
         \/ \E k \in DOMAIN data.fields : HoldsResolvable(data.fields[k])
    [] OTHER -> FALSE

\* the entry carries a textStyleId that the identifier lookup or, with a
\* fontFamily, property matching names
HoldsResolvableTextStyle(entry) ==
  /\ entry.t = "object"
  /\ Truthy(Get(entry, "textStyleId"))
  /\ \/ NameById(Get(entry, "textStyleId").s) # Null
     \/ In("fontFamily", entry) /\ NameByProperties(entry) # Null

\* C29: the design a call returns has the name, lastModified, thumbnailUrl,
\* nodes, components and componentSets of the design it was given, and every
\* entry of the store that holds no resolvable `variable` reference and no
\* resolvable textStyleId as it was
C29_FrameUnchanged ==
  \A c \in 1..Len(calls) :
    ~calls[c].raised =>
      LET given == calls[c].before
          returned == memory[calls[c].output]
      IN /\ \A f \in FrameFields : Get(returned, f) = Get(given, f)
         /\ \A k \in KeysOf(given) :
              (~HoldsResolvable(StoreOf(given)[k]) /\ ~HoldsResolvableTextStyle(StoreOf(given)[k]))
                => StoreOf(returned)[k] = StoreOf(given)[k]

\* a call rewrote one entry of the store and returned another, whose
\* reference the token file does not resolve, as it was, beside the nodes
C29_Witness ==
  \E c \in 1..Len(calls) :
    /\ ~calls[c].raised
    /\ calls[c].output # calls[c].input
    /\ Get(memory[calls[c].output], "nodes") = DesignFrame["nodes"]
    /\ \E k, j \in KeysOf(calls[c].before) :
         /\ HoldsResolvable(StoreOf(calls[c].before)[k])
         /\ StoreOf(memory[calls[c].output])[k] # StoreOf(calls[c].before)[k]
         /\ ~HoldsResolvable(StoreOf(calls[c].before)[j])
         /\ findVariableIds(StoreOf(calls[c].before)[j]) # {}
         /\ StoreOf(memory[calls[c].output])[j] = StoreOf(calls[c].before)[j]

----------------------------------------------------------------------------
(* Properties of a refresh that fails *)

\* the suspended calls without call c
WithoutCall(c) ==
  [i \in 1..(Len(inflight) - 1) |-> IF i < c THEN inflight[i] ELSE inflight[i + 1]]

\* C30: a call that fetched from an endpoint that throws or answers non-OK
\* returns the local mappings alone and leaves them as the cache, stamped
\* now, whatever was cached from an earlier fetch, so that VarB, which only
\* the endpoint maps, resolves to null; and a call answered from the cache
\* returns the cache as it is and leaves it alone
C30_FailedRefreshCached ==
  [][ Len(history') = Len(history) + 1 =>
        /\ \A c \in 1..Len(inflight) :
             (/\ inflight' = WithoutCall(c)
              /\ inflight[c].url
              /\ inflight[c].kind \in {"notok", "throws"}) =>
               /\ history'[Len(history')].result = FirstUsable
               /\ cachedMappings' = Arr(FirstUsable)
               /\ cacheTimestamp' = now
               /\ resolveVariableFromMapping(VarB, <<>>, cachedMappings'.items) = Null
        /\ inflight' = inflight =>
             /\ history'[Len(history')].result = cachedMappings.items
             /\ UNCHANGED <<cachedMappings, cacheTimestamp>> ]_vars

\* the first call cached the endpoint's mappings, the endpoint then began to
\* fail, the call after expiry cached the local file's alone, and the third
\* call, answered from that cache, no longer resolves VarB
C30_Witness ==
  /\ Len(history) = 3
  /\ inflight = <<>>
  /\ remote.url /\ remote.kind \in {"notok", "throws"}
  /\ files["cwd"].state = "ok"
  /\ history[1].fetched
  /\ resolveVariableFromMapping(VarB, <<>>, history[1].result) # Null
  /\ history[2].fetched
  /\ history[2].start - history[1].end >= CACHE_DURATION
  /\ history[2].result = FileContent("cwd", 1)
  /\ ~history[3].fetched /\ ~history[3].checkedLocal
  /\ history[3].result = FileContent("cwd", 1)
  /\ cachedMappings = Arr(FileContent("cwd", 1))
  /\ resolveVariableFromMapping(VarB, <<>>, cachedMappings.items) = Null

====
